---- MODULE Spec2Model ----
(***************************************************************************)
(* A model of morph::VisualOwnable (src/morph/VisualOwnable.h): the scene  *)
(* state and the callbacks that map input events to it.                    *)
(*                                                                         *)
(* Numbers.  Lengths (scenetrans, cyl_cam_pos, ortho_lb, ortho_rt and      *)
(* normalised device coordinates) are integers counted in tenths of a      *)
(* world unit, so that scenetrans_stepsize (0.1f) is 1 and zDefault        *)
(* (-5.0f) is -50.  fov is in whole degrees.  zNear is counted in units of *)
(* 0.001 / 2^MaxZNearHalvings, so that halving and doubling are exact;     *)
(* cyl_radius and cyl_height likewise, in units of 0.005 / 2^MaxCylHalvings.*)
(* rotation is a quaternion <<w, x, y, z>> with integer components: the     *)
(* cursor positions of the model lie on a grid whose step turns the scene  *)
(* by 180 degrees, which keeps every rotation in the quaternion group      *)
(* {+-1, +-i, +-j, +-k} and every product exact.                           *)
(***************************************************************************)
EXTENDS Integers, Sequences, FiniteSets, TLC

----------------------------------------------------------------------------
(* Bounds of the model *)

\* number of grid steps the cursor may be away from the origin
MaxCursor == 1
\* largest distance of a scenetrans component from its default, in tenths
MaxTrans == 45
\* largest value of the homogeneous component of cyl_cam_pos
MaxCylW == 2
\* number of times zNear may be halved (or doubled) from its default
MaxZNearHalvings == 1
\* number of times fov may be changed away from its default in SpecKeys
MaxFovSteps == 2
\* number of times cyl_radius and cyl_height may be halved (or doubled)
MaxCylHalvings == 1
\* largest number of calls of external_quit_callback
MaxQuits == 2
\* largest number of text labels
MaxLabels == 2
\* largest number of models ever added to the registry
MaxModels == 3
\* largest number of steps a model's alpha may be below 1
MaxAlphaSteps == 1
\* largest size of a scroll offset in SpecOrtho
MaxScroll == 3
\* largest distance that a translate gesture may move the scene in SpecPan,
\* in tenths
MaxPan == 20
\* largest absolute value of an orthographic bound, in tenths
MaxOrtho == 16

----------------------------------------------------------------------------
(* Program constants *)

zDefault == -50
scenetrans_stepsize == 1
fov_default == 30
window_w_default == 640
window_h_default == 480
zFar == 300

----------------------------------------------------------------------------
(* Transform primitives: morph::vec, morph::quaternion, morph::mat44 *)

Abs(n) == IF n < 0 THEN -n ELSE n

\* floor of the square root of n, searched by bisection in lo..hi
RECURSIVE SqrtIn(_, _, _)
SqrtIn(n, lo, hi) ==
    IF lo >= hi
    THEN lo
    ELSE LET mid == (lo + hi + 1) \div 2
         IN  IF mid * mid <= n THEN SqrtIn(n, mid, hi) ELSE SqrtIn(n, lo, mid - 1)

ISqrt(n) == SqrtIn(n, 0, IF n < 46340 THEN n ELSE 46340)

\* vec::length
Length(v) == ISqrt(v[1] * v[1] + v[2] * v[2] + v[3] * v[3])

\* vec::renormalize: a zero vector is left as it is
Renormalize(v) ==
    LET len == Length(v)
    IN  IF len = 0 THEN v ELSE <<v[1] \div len, v[2] \div len, v[3] \div len>>

\* vec < scalar and vec > scalar hold when they hold of every component
VecLt(v, s) == \A i \in DOMAIN v : v[i] < s

VecGt(v, s) == \A i \in DOMAIN v : v[i] > s

QuatIdentity == <<1, 0, 0, 0>>

\* cos and sin of n quarter turns
CosQ(n) == <<1, 0, -1, 0>>[(n % 4) + 1]

SinQ(n) == <<0, 1, 0, -1>>[(n % 4) + 1]

\* quaternion (axis, angle): <<cos(angle/2), axis * sin(angle/2)>>, for an
\* angle of halfturns * 180 degrees (negative for a negative angle)
QuatFromAxisAngle(axis, halfturns) ==
    LET ax == Renormalize(axis)
        c  == CosQ(halfturns)
        s  == SinQ(halfturns)
    IN  <<c, ax[1] * s, ax[2] * s, ax[3] * s>>

\* the Hamilton product a * b; a.postmultiply (b) sets a to it
QuatMul(a, b) ==
    << a[1] * b[1] - a[2] * b[2] - a[3] * b[3] - a[4] * b[4],
       a[1] * b[2] + a[2] * b[1] + a[3] * b[4] - a[4] * b[3],
       a[1] * b[3] - a[2] * b[4] + a[3] * b[1] + a[4] * b[2],
       a[1] * b[4] + a[2] * b[3] - a[3] * b[2] + a[4] * b[1] >>

MatIdentity == << <<1, 0, 0, 0>>, <<0, 1, 0, 0>>, <<0, 0, 1, 0>>, <<0, 0, 0, 1>> >>

\* mat44::rotate (q) applied to the identity matrix
RotationMatrix(q) ==
    LET w == q[1]
        x == q[2]
        y == q[3]
        z == q[4]
    IN  << <<1 - 2 * (y * y + z * z), 2 * (x * y - z * w), 2 * (x * z + y * w), 0>>,
           <<2 * (x * y + z * w), 1 - 2 * (x * x + z * z), 2 * (y * z - x * w), 0>>,
           <<2 * (x * z - y * w), 2 * (y * z + x * w), 1 - 2 * (x * x + y * y), 0>>,
           <<0, 0, 0, 1>> >>

\* mat44::invert of a rotation matrix: its transpose
InvertRotation(m) ==
    << <<m[1][1], m[2][1], m[3][1], m[4][1]>>,
       <<m[1][2], m[2][2], m[3][2], m[4][2]>>,
       <<m[1][3], m[2][3], m[3][3], m[4][3]>>,
       <<m[1][4], m[2][4], m[3][4], m[4][4]>> >>

\* mat44::translate (t) applied to the identity matrix
TranslationMatrix(t) ==
    << <<1, 0, 0, t[1]>>, <<0, 1, 0, t[2]>>, <<0, 0, 1, t[3]>>, <<0, 0, 0, 1>> >>

\* mat44 * mat44; m.translate (t) and m.rotate (q) set m to m times the
\* matrix of the translation or rotation
MatMulEntry(a, b, i, j) ==
    a[i][1] * b[1][j] + a[i][2] * b[2][j] + a[i][3] * b[3][j] + a[i][4] * b[4][j]

MatMulRow(a, b, i) ==
    <<MatMulEntry(a, b, i, 1), MatMulEntry(a, b, i, 2), MatMulEntry(a, b, i, 3),
      MatMulEntry(a, b, i, 4)>>

MatMul(a, b) ==
    <<MatMulRow(a, b, 1), MatMulRow(a, b, 2), MatMulRow(a, b, 3), MatMulRow(a, b, 4)>>

RECURSIVE GCD(_, _)
GCD(a, b) == IF b = 0 THEN a ELSE GCD(b, a % b)

\* mat44::perspective and mat44::orthographic applied to the identity
\* matrix, and mat44::invert: a matrix that is not of whole numbers is the
\* term that names it, the aspect ratio being a fraction in lowest terms
Perspective(_fov, _w, _h, _zNear, _zFar) ==
    <<"perspective", _fov, _w \div GCD(_w, _h), _h \div GCD(_w, _h), _zNear, _zFar>>

Orthographic(_lb, _rt, _zNear, _zFar) == <<"orthographic", _lb, _rt, _zNear, _zFar>>

\* 1000 * sin (a / 2 degrees), for 0 <= a <= 360
Sine(a) == (4000 * a * (360 - a)) \div (162000 - a * (360 - a))

\* 1000 * tan (_fov / 2 degrees), for 0 < _fov < 180
TanHalf(_fov) == (1000 * Sine(_fov)) \div Sine(180 - _fov)

\* whether two matrices, whole-numbered or not, are the same
SameMatrix(a, b) == Len(a) = Len(b) /\ a = b

\* mat44::invert of a projection matrix, as a term, and of the identity
Invert(m) == IF SameMatrix(m, MatIdentity) THEN MatIdentity ELSE <<"inverse", m>>

\* mat44 * vec<float, 4>
MatRow(m, v, i) == m[i][1] * v[1] + m[i][2] * v[2] + m[i][3] * v[3] + m[i][4] * v[4]

MatVec(m, v) == <<MatRow(m, v, 1), MatRow(m, v, 2), MatRow(m, v, 3), MatRow(m, v, 4)>>

----------------------------------------------------------------------------
(* The state of a VisualOwnable *)

VARIABLES
    window_w,             \* current window width, in pixels
    window_h,             \* current window height, in pixels
    cursorpos,            \* current cursor position, in pixels
    mousePressPosition,   \* position of the last mouse press
    rotateMode,           \* cursor movements rotate the scene
    rotateModMode,        \* rotations are about the view axis
    translateMode,        \* cursor movements translate the scene
    scenetrans,           \* translation of the whole scene, <<x, y, z>>
    scenetrans_default,   \* the scenetrans that Ctrl-a reverts to
    rotation,             \* rotation of the scene, a quaternion
    rotation_default,     \* the rotation that Ctrl-a reverts to
    savedRotation,        \* rotation saved at the last button press
    invscene,             \* inverse of the rotation-only scene matrix
    projection,           \* the projection matrix
    invproj,              \* the inverse of projection
    cyl_cam_pos,          \* cylindrical camera position, <<x, y, z, w>>
    cyl_cam_pos_default,  \* the cyl_cam_pos that Ctrl-a reverts to
    fov,                  \* field of view, degrees
    zNear,                \* near clipping distance
    ptype,                \* perspective_type
    cyl_radius,           \* radius of the cylindrical projection screen
    cyl_height,           \* height of the cylindrical projection screen
    ortho_lb,             \* orthographic left-bottom, <<x, y>>
    ortho_rt,             \* orthographic right-top, <<x, y>>
    sceneLocked,          \* the scene lock
    showCoordArrows,      \* show the coordinate arrows
    showTitle,            \* show the title text in the window
    vm,                   \* the VisualModels owned by the scene, in order
    selectedVisualModel,  \* index (from 0) of the selected model
    nextId,               \* the identity the next model constructed will have
    ub,                   \* an element of vm outside its bounds was accessed
    readyToFinish,        \* the user has requested exit
    preventWindowCloseWithButton,  \* the window's close button is ignored
    external_quit_callback,        \* the client code has set a quit callback
    quit_calls,           \* number of calls of external_quit_callback so far
    context,              \* setContext was called and releaseContext not since
    gprog,                \* shaders.gprog, the graphics shader program (0: none)
    tprog,                \* shaders.tprog, the text shader program (0: none)
    active_gprog,         \* the graphics_shader_type that gprog was loaded for
    texts,                \* the text labels owned by the scene, in order
    thrown,               \* the last operation on the GL context threw
    frame,                \* the GL operations of the last render, in order
    Visual_json,          \* the snapshot file /tmp/Visual.json
    scene_gltf,           \* the file that savegltf wrote last
    ev,                   \* the event handled last
    ret,                  \* what the handler of ev returned (FALSE if void)
    ptype_trail,          \* ptype before each of the last three Ctrl-y presses
    gesture               \* the press that began the gesture being observed

gestureVars == <<cursorpos, mousePressPosition, rotateMode, rotateModMode,
                 translateMode, savedRotation, invscene>>
cameraVars == <<scenetrans, rotation, cyl_cam_pos>>
defaultVars == <<scenetrans_default, rotation_default, cyl_cam_pos_default>>
projVars == <<window_w, window_h, projection, invproj, fov, zNear, ptype, ortho_lb, ortho_rt,
              cyl_radius, cyl_height>>
flagVars == <<sceneLocked, showCoordArrows, showTitle>>
regVars == <<vm, selectedVisualModel, nextId, ub>>
quitVars == <<readyToFinish, preventWindowCloseWithButton, external_quit_callback,
              quit_calls>>
glVars == <<context, gprog, tprog, active_gprog, texts, thrown>>
outVars == <<frame, Visual_json, scene_gltf>>
hostVars == <<quitVars, glVars, outVars>>
obsVars == <<ev, ret, ptype_trail, gesture>>

vars == <<gestureVars, cameraVars, defaultVars, projVars, flagVars, regVars, hostVars,
          obsVars>>

\* a field of the snapshot file: a number, a value of another type, or not
\* in the file
Num(n) == [kind |-> "num", val |-> n]

NotNum == [kind |-> "bad", val |-> 0]

Absent == [kind |-> "absent", val |-> 0]

\* the file /tmp/Visual.json when it is not there or is not JSON; a file
\* that is JSON is the tuple of its fields scenetrans_x, scenetrans_y,
\* scenetrans_z, scenerotn_w, scenerotn_x, scenerotn_y, scenerotn_z
NoFile == <<>>

NoEvent == [kind |-> "none", key |-> "", mods |-> {}, action |-> "", x |-> 0, y |-> 0]

\* no gesture is being observed
NoGesture ==
    [at |-> <<0, 0>>, scenetrans |-> <<0, 0, 0>>, cyl_cam_pos |-> <<0, 0, 0, 0>>,
     rotation |-> <<0, 0, 0, 0>>, steady |-> FALSE]

\* the member initialisers, with the public members fov, ptype, ortho_lb and
\* ortho_rt as the client code has set them before the first event
Members(_fov, _ptype, _lb, _rt) ==
    /\ window_w = window_w_default
    /\ window_h = window_h_default
    /\ cursorpos = <<0, 0>>
    /\ mousePressPosition = <<0, 0>>
    /\ rotateMode = FALSE
    /\ rotateModMode = FALSE
    /\ translateMode = FALSE
    /\ scenetrans = <<0, 0, zDefault>>
    /\ scenetrans_default = <<0, 0, zDefault>>
    /\ rotation = QuatIdentity
    /\ rotation_default = QuatIdentity
    /\ savedRotation = QuatIdentity
    /\ invscene = MatIdentity
    /\ projection = MatIdentity
    /\ invproj = MatIdentity
    /\ cyl_cam_pos = <<0, 0, 0, 1>>
    /\ cyl_cam_pos_default = <<0, 0, 0, 1>>
    /\ fov = _fov
    /\ zNear = 2 ^ MaxZNearHalvings
    /\ ptype = _ptype
    /\ ortho_lb = _lb
    /\ ortho_rt = _rt
    /\ cyl_radius = 2 ^ MaxCylHalvings
    /\ cyl_height = 2 * 2 ^ MaxCylHalvings
    /\ sceneLocked = FALSE
    /\ showCoordArrows = FALSE
    /\ showTitle = FALSE
    /\ vm = <<>>
    /\ selectedVisualModel = 0
    /\ nextId = 1
    /\ ub = FALSE
    /\ readyToFinish = FALSE
    /\ preventWindowCloseWithButton = FALSE
    /\ external_quit_callback = FALSE
    /\ quit_calls = 0
    /\ context = FALSE
    /\ gprog = 0
    /\ tprog = 0
    /\ active_gprog = "none"
    /\ texts = <<>>
    /\ thrown = FALSE
    /\ frame = <<>>
    /\ Visual_json = NoFile
    /\ scene_gltf = <<>>
    /\ ev = NoEvent
    /\ ret = FALSE
    /\ ptype_trail = <<>>
    /\ gesture = NoGesture

\* the state of a newly constructed scene
Construct == Members(fov_default, "perspective", <<-13, -10>>, <<13, 10>>)

----------------------------------------------------------------------------
(* mouse_button_callback *)

\* ButtonModes with the primary branch leaving translateMode as it is
ButtonModes_KeepsTranslate(button, action, mods) ==
    IF button = "left"
    THEN <<action = "press", "control" \in mods, translateMode>>
    ELSE IF button = "right"
         THEN <<FALSE, rotateModMode, action = "press">>
         ELSE <<rotateMode, rotateModMode, translateMode>>

\* ButtonModes with any other button ending the gesture
ButtonModes_OtherEndsGesture(button, action, mods) ==
    IF button = "left"
    THEN <<action = "press", "control" \in mods, FALSE>>
    ELSE IF button = "right"
         THEN <<FALSE, rotateModMode, action = "press">>
         ELSE <<FALSE, rotateModMode, FALSE>>

\* the mode flags <<rotateMode, rotateModMode, translateMode>> after a button
\* event: primary means rotate, secondary means translate
ButtonModes(button, action, mods) ==
    IF button = "left"
    THEN <<action = "press", "control" \in mods, FALSE>>
    ELSE IF button = "right"
         THEN <<FALSE, rotateModMode, action = "press">>
         ELSE <<rotateMode, rotateModMode, translateMode>>

\* ButtonsIgnored without the test of the lock
ButtonsIgnored_Never == FALSE

\* whether the callback returns at once: a locked scene ignores the buttons
ButtonsIgnored == sceneLocked

mouse_button_callback(button, action, mods) ==
    IF ButtonsIgnored
    THEN UNCHANGED <<gestureVars, cameraVars, defaultVars, projVars, flagVars, regVars,
                     hostVars>>
    ELSE /\ IF action = "press"
            THEN /\ mousePressPosition' = cursorpos
                 /\ savedRotation' = rotation
                 /\ invscene' = InvertRotation(RotationMatrix(rotation))
            ELSE UNCHANGED <<mousePressPosition, savedRotation, invscene>>
         /\ rotateMode' = ButtonModes(button, action, mods)[1]
         /\ rotateModMode' = ButtonModes(button, action, mods)[2]
         /\ translateMode' = ButtonModes(button, action, mods)[3]
         /\ UNCHANGED <<cursorpos, cameraVars, defaultVars, projVars, flagVars, regVars,
                        hostVars>>

----------------------------------------------------------------------------
(* cursor_position_callback *)

\* a position in pixels as a coordinate in the range -1 -> 1 (in tenths):
\* both components are centred and scaled with half the window width
ToCoord(p) ==
    <<((2 * p[1] - window_w) * 10) \div window_w,
      ((2 * p[2] - window_w) * 10) \div window_w>>

\* the world-frame point under coordinate c, at depth z, through the
\* projection proj and its inverse inv: forward projection gives the z
\* coordinate for the inverse projection. Through the matrices that
\* setPerspective and setOrthographic build, that is the point of the
\* frustum, or of the box, at that depth
UnprojectThrough(proj, inv, c, z) ==
    IF Len(proj) = 4
    THEN LET point   == <<0, 0, z, 1>>
             pp      == MatVec(proj, point)
             coord_z == pp[3] \div pp[4]
             v       == MatVec(inv, <<c[1], c[2], coord_z, 1>>)
         IN  <<v[1] \div v[4], v[2] \div v[4]>>
    ELSE IF proj[1] = "perspective"
         THEN <<(c[1] * (-z) * TanHalf(proj[2]) * proj[3]) \div (proj[4] * 10000),
                (c[2] * (-z) * TanHalf(proj[2])) \div 10000>>
         ELSE <<((proj[2][1] + proj[3][1]) * 10 + c[1] * (proj[3][1] - proj[2][1])) \div 20,
                ((proj[2][2] + proj[3][2]) * 10 + c[2] * (proj[3][2] - proj[2][2])) \div 20>>

Unproject(c) == UnprojectThrough(projection, invproj, c, scenetrans[3])

\* the degrees by which a cursor move to p in rotate mode turns the scene
RotAmount(p) ==
    LET v0   == Unproject(ToCoord(mousePressPosition))
        v1   == Unproject(ToCoord(p))
        mouseMoveWorld ==
            IF rotateModMode
            THEN <<0, 0, -(v1[2] - v0[2]) + (v1[1] - v0[1])>>
            ELSE <<-(v1[2] - v0[2]), -(v1[1] - v0[1]), 0>>
    IN  Length(mouseMoveWorld) * 4

\* RotateTo combining the turn with rotation, not with savedRotation
RotateTo_FromCurrent(p) ==
    LET v0   == Unproject(ToCoord(mousePressPosition))
        v1   == Unproject(ToCoord(p))
        mouseMoveWorld ==
            IF rotateModMode
            THEN <<0, 0, -(v1[2] - v0[2]) + (v1[1] - v0[1])>>
            ELSE <<-(v1[2] - v0[2]), -(v1[1] - v0[1]), 0>>
        rotamount == Length(mouseMoveWorld) * 4
        axis0 == Renormalize(<<mouseMoveWorld[1] * rotamount,
                               mouseMoveWorld[2] * rotamount,
                               mouseMoveWorld[3] * rotamount>>)
        tmp_4D == MatVec(invscene, <<axis0[1], axis0[2], axis0[3], 1>>)
        rotationAxis == <<tmp_4D[1], tmp_4D[2], tmp_4D[3]>>
        rotnQuat == QuatFromAxisAngle(rotationAxis, -(rotamount \div 180))
    IN  QuatMul(rotation, rotnQuat)

\* rotation after a cursor move to p in rotate mode: savedRotation combined
\* with a turn of 40 degrees per world unit that the cursor is away from the
\* press position, about the axis of the movement seen in the model frame
RotateTo(p) ==
    LET v0   == Unproject(ToCoord(mousePressPosition))
        v1   == Unproject(ToCoord(p))
        mouseMoveWorld ==
            IF rotateModMode
            THEN <<0, 0, -(v1[2] - v0[2]) + (v1[1] - v0[1])>>
            ELSE <<-(v1[2] - v0[2]), -(v1[1] - v0[1]), 0>>
        \* degrees: 40 per world unit, 4 per tenth
        rotamount == Length(mouseMoveWorld) * 4
        axis0 == Renormalize(<<mouseMoveWorld[1] * rotamount,
                               mouseMoveWorld[2] * rotamount,
                               mouseMoveWorld[3] * rotamount>>)
        tmp_4D == MatVec(invscene, <<axis0[1], axis0[2], axis0[3], 1>>)
        rotationAxis == <<tmp_4D[1], tmp_4D[2], tmp_4D[3]>>
        rotnQuat == QuatFromAxisAngle(rotationAxis, -(rotamount \div 180))
    IN  QuatMul(savedRotation, rotnQuat)

\* TranslateBy measuring the movement from the corner of the window
TranslateBy_FromCorner(p) ==
    LET v0 == Unproject(ToCoord(<<0, 0>>))
        v1 == Unproject(ToCoord(p))
    IN  <<v1[1] - v0[1], v1[2] - v0[2]>>

\* the world-frame movement <<x, y>> of a cursor move to p in translate mode
TranslateBy(p) ==
    LET v0 == Unproject(ToCoord(mousePressPosition))
        v1 == Unproject(ToCoord(p))
    IN  <<v1[1] - v0[1], v1[2] - v0[2]>>

\* CursorNeedsRender asking for a render after every cursor move
CursorNeedsRender_Always(rotating, translating) == TRUE

\* needs_render of cursor_position_callback: set in the rotate branch and in
\* the translate branch
CursorNeedsRender(rotating, translating) == rotating \/ translating

\* cursor_position_callback setting mousePressPosition in the rotate
\* branch as well
cursor_position_callback_MovesPress(p) ==
    /\ cursorpos' = p
    /\ IF rotateMode
       THEN /\ rotation' = RotateTo(p)
            /\ mousePressPosition' = p
            /\ UNCHANGED <<scenetrans, cyl_cam_pos>>
       ELSE IF translateMode
            THEN /\ mousePressPosition' = p
                 /\ scenetrans' = <<scenetrans[1] + TranslateBy(p)[1],
                                    scenetrans[2] - TranslateBy(p)[2],
                                    scenetrans[3]>>
                 /\ cyl_cam_pos' = <<cyl_cam_pos[1] - TranslateBy(p)[1],
                                     cyl_cam_pos[2],
                                     cyl_cam_pos[3] + TranslateBy(p)[2],
                                     cyl_cam_pos[4]>>
                 /\ UNCHANGED rotation
            ELSE UNCHANGED <<mousePressPosition, cameraVars>>
    /\ ret' = CursorNeedsRender(rotateMode, translateMode)
    /\ UNCHANGED <<rotateMode, rotateModMode, translateMode, savedRotation, invscene,
                   defaultVars, projVars, flagVars, regVars, hostVars>>

cursor_position_callback(p) ==
    /\ cursorpos' = p
    /\ IF rotateMode
       THEN /\ rotation' = RotateTo(p)
            /\ UNCHANGED <<mousePressPosition, scenetrans, cyl_cam_pos>>
       ELSE IF translateMode
            THEN /\ mousePressPosition' = p
                 /\ scenetrans' = <<scenetrans[1] + TranslateBy(p)[1],
                                    scenetrans[2] - TranslateBy(p)[2],
                                    scenetrans[3]>>
                 /\ cyl_cam_pos' = <<cyl_cam_pos[1] - TranslateBy(p)[1],
                                     cyl_cam_pos[2],
                                     cyl_cam_pos[3] + TranslateBy(p)[2],
                                     cyl_cam_pos[4]>>
                 /\ UNCHANGED rotation
            ELSE UNCHANGED <<mousePressPosition, cameraVars>>
    /\ ret' = CursorNeedsRender(rotateMode, translateMode)
    /\ UNCHANGED <<rotateMode, rotateModMode, translateMode, savedRotation, invscene,
                   defaultVars, projVars, flagVars, regVars, hostVars>>

----------------------------------------------------------------------------
(* scroll_callback *)

\* OrthoScroll without the test of the rescaled bounds
OrthoScroll_Unchecked(lb, rt, yoffset) ==
    <<<<lb[1] + yoffset * scenetrans_stepsize, lb[2] + yoffset * scenetrans_stepsize>>,
      <<rt[1] - yoffset * scenetrans_stepsize, rt[2] - yoffset * scenetrans_stepsize>>>>

\* OrthoScroll testing only the left-bottom bound, and keeping the
\* right-top bound when the rescale is rejected
OrthoScroll_TestsOnlyLb(lb, rt, yoffset) ==
    LET _lb == <<lb[1] + yoffset * scenetrans_stepsize, lb[2] + yoffset * scenetrans_stepsize>>
        _rt == <<rt[1] - yoffset * scenetrans_stepsize, rt[2] - yoffset * scenetrans_stepsize>>
    IN  IF VecLt(_lb, 0) THEN <<_lb, _rt>> ELSE <<lb, rt>>

\* the orthographic bounds <<ortho_lb, ortho_rt>> after a scroll by yoffset:
\* rescaled, unless that takes a bound to or across zero
OrthoScroll(lb, rt, yoffset) ==
    LET _lb == <<lb[1] + yoffset * scenetrans_stepsize, lb[2] + yoffset * scenetrans_stepsize>>
        _rt == <<rt[1] - yoffset * scenetrans_stepsize, rt[2] - yoffset * scenetrans_stepsize>>
    IN  IF VecLt(_lb, 0) /\ VecGt(_rt, 0) THEN <<_lb, _rt>> ELSE <<lb, rt>>

\* ScrollIgnored without the test of the lock
ScrollIgnored_Never == FALSE

\* whether the callback returns false at once: a locked scene ignores the
\* wheel
ScrollIgnored == sceneLocked

\* scroll_callback moving cyl_cam_pos the way it moves scenetrans
scroll_callback_SameWay(xoffset, yoffset) ==
    IF ScrollIgnored
    THEN /\ ret' = FALSE
         /\ UNCHANGED <<gestureVars, cameraVars, defaultVars, projVars, flagVars, regVars,
                        hostVars>>
    ELSE /\ ret' = TRUE
         /\ IF ptype = "orthographic"
            THEN /\ ortho_lb' = OrthoScroll(ortho_lb, ortho_rt, yoffset)[1]
                 /\ ortho_rt' = OrthoScroll(ortho_lb, ortho_rt, yoffset)[2]
                 /\ UNCHANGED cameraVars
            ELSE LET scroll_move_y == <<0, yoffset * scenetrans_stepsize, 0, 1>>
                     moved == MatVec(RotationMatrix(rotation), scroll_move_y)
                 IN  /\ scenetrans' = <<scenetrans[1] - xoffset * scenetrans_stepsize,
                                        scenetrans[2],
                                        scenetrans[3] + scroll_move_y[2]>>
                     /\ cyl_cam_pos' =
                            <<cyl_cam_pos[1] - xoffset * scenetrans_stepsize + moved[1],
                              cyl_cam_pos[2] + moved[2],
                              cyl_cam_pos[3] + moved[3],
                              cyl_cam_pos[4] + moved[4]>>
                     /\ UNCHANGED <<rotation, ortho_lb, ortho_rt>>
         /\ UNCHANGED <<gestureVars, defaultVars, window_w, window_h, projection,
                        invproj, fov, zNear, ptype, cyl_radius, cyl_height, flagVars,
                        regVars, hostVars>>

scroll_callback(xoffset, yoffset) ==
    IF ScrollIgnored
    THEN /\ ret' = FALSE
         /\ UNCHANGED <<gestureVars, cameraVars, defaultVars, projVars, flagVars, regVars,
                        hostVars>>
    ELSE /\ ret' = TRUE
         /\ IF ptype = "orthographic"
            THEN /\ ortho_lb' = OrthoScroll(ortho_lb, ortho_rt, yoffset)[1]
                 /\ ortho_rt' = OrthoScroll(ortho_lb, ortho_rt, yoffset)[2]
                 /\ UNCHANGED cameraVars
            ELSE LET scroll_move_y == <<0, yoffset * scenetrans_stepsize, 0, 1>>
                     moved == MatVec(RotationMatrix(rotation), scroll_move_y)
                 IN  /\ scenetrans' = <<scenetrans[1] - xoffset * scenetrans_stepsize,
                                        scenetrans[2],
                                        scenetrans[3] + scroll_move_y[2]>>
                     /\ cyl_cam_pos' =
                            <<cyl_cam_pos[1] + xoffset * scenetrans_stepsize + moved[1],
                              cyl_cam_pos[2] + moved[2],
                              cyl_cam_pos[3] + moved[3],
                              cyl_cam_pos[4] + moved[4]>>
                     /\ UNCHANGED <<rotation, ortho_lb, ortho_rt>>
         /\ UNCHANGED <<gestureVars, defaultVars, window_w, window_h, projection,
                        invproj, fov, zNear, ptype, cyl_radius, cyl_height, flagVars,
                        regVars, hostVars>>

----------------------------------------------------------------------------
(* signal_to_quit, saveImage *)

\* signal_to_quit calling the external callback only
signal_to_quit_LeavesFlag ==
    <<readyToFinish, IF external_quit_callback THEN quit_calls + 1 ELSE quit_calls>>

\* <<readyToFinish, quit_calls>> after signal_to_quit: the flag is set, and
\* the external callback is called if the client code has set one
signal_to_quit ==
    <<TRUE, IF external_quit_callback THEN quit_calls + 1 ELSE quit_calls>>

\* saveImage: setContext on entry, then the pixels are read and encoded and
\* the function returns, with the dimensions or with {-1, -1}; neither
\* return is preceded by releaseContext
saveImage ==
    /\ context' = TRUE
    /\ thrown' = FALSE

----------------------------------------------------------------------------
(* savegltf: the document is the sequence of its JSON tokens; what a model *)
(* says of itself (translation_str, indices_base64, ...) is one token      *)

\* the separator written after the element of model vmi, if
\* vmi < vm.size()-1: the subtraction is unsigned and wraps (16 bits here)
More(vmi, size) == IF vmi < (size - 1) % 65536 THEN <<",">> ELSE <<>>

\* SceneNodes as a loop that tests its condition after the body
RECURSIVE SceneNodes_TestsAfter(_, _)
SceneNodes_TestsAfter(vmi, size) ==
    <<ToString(vmi)>> \o More(vmi, size)
        \o (IF vmi + 1 < size THEN SceneNodes_TestsAfter(vmi + 1, size) ELSE <<>>)

RECURSIVE SceneNodes(_, _)
SceneNodes(vmi, size) ==
    IF vmi < size
    THEN <<ToString(vmi)>> \o More(vmi, size) \o SceneNodes(vmi + 1, size)
    ELSE <<>>

RECURSIVE Nodes(_, _)
Nodes(vmi, size) ==
    IF vmi < size
    THEN <<"{", "mesh", ":", ToString(vmi), ",",
           "translation", ":", "translation_str", "}">>
         \o More(vmi, size) \o Nodes(vmi + 1, size)
    ELSE <<>>

RECURSIVE Meshes(_, _)
Meshes(vmi, size) ==
    IF vmi < size
    THEN <<"{", "primitives", ":", "[", "{",
           "attributes", ":", "{", "POSITION", ":", ToString(1 + vmi * 4), ",",
                                   "COLOR_0", ":", ToString(2 + vmi * 4), ",",
                                   "NORMAL", ":", ToString(3 + vmi * 4), "}", ",",
           "indices", ":", ToString(vmi * 4), ",", "material", ":", "0",
           "}", "]", "}">>
         \o More(vmi, size) \o Meshes(vmi + 1, size)
    ELSE <<>>

\* one buffer: its data and its length
Buffer(data, bytes) == <<"{", "uri", ":", data, ",", "byteLength", ":", bytes, "}">>

RECURSIVE Buffers(_, _)
Buffers(vmi, size) ==
    IF vmi < size
    THEN Buffer("indices_base64", "indices_bytes") \o <<",">>
         \o Buffer("vpos_base64", "vpos_bytes") \o <<",">>
         \o Buffer("vcol_base64", "vcol_bytes") \o <<",">>
         \o Buffer("vnorm_base64", "vnorm_bytes")
         \o More(vmi, size) \o Buffers(vmi + 1, size)
    ELSE <<>>

BufferView(buffer, bytes, target) ==
    <<"{", "buffer", ":", ToString(buffer), ",", "byteOffset", ":", "0", ",",
      "byteLength", ":", bytes, ",", "target", ":", target, "}">>

RECURSIVE BufferViews(_, _)
BufferViews(vmi, size) ==
    IF vmi < size
    THEN BufferView(vmi * 4, "indices_bytes", "34963") \o <<",">>
         \o BufferView(1 + vmi * 4, "vpos_bytes", "34962") \o <<",">>
         \o BufferView(2 + vmi * 4, "vcol_bytes", "34962") \o <<",">>
         \o BufferView(3 + vmi * 4, "vnorm_bytes", "34962")
         \o More(vmi, size) \o BufferViews(vmi + 1, size)
    ELSE <<>>

Accessor(bufferView, componentType, type, count, maxmin) ==
    <<"{", "bufferView", ":", ToString(bufferView), ",", "byteOffset", ":", "0", ",",
      "componentType", ":", componentType, ",", "type", ":", type, ",",
      "count", ":", count>> \o maxmin \o <<"}">>

RECURSIVE Accessors(_, _)
Accessors(vmi, size) ==
    IF vmi < size
    THEN Accessor(vmi * 4, "5125", "SCALAR", "indices_size", <<>>) \o <<",">>
         \o Accessor(1 + vmi * 4, "5126", "VEC3", "vpos_size",
                     <<",", "max", ":", "vpos_max", ",", "min", ":", "vpos_min">>)
         \o <<",">>
         \o Accessor(2 + vmi * 4, "5126", "VEC3", "vcol_size", <<>>) \o <<",">>
         \o Accessor(3 + vmi * 4, "5126", "VEC3", "vnorm_size", <<>>)
         \o More(vmi, size) \o Accessors(vmi + 1, size)
    ELSE <<>>

\* the document that savegltf writes for the models in vm
savegltf ==
    <<"{", "scenes", ":", "[", "{", "nodes", ":", "[">>
        \o SceneNodes(0, Len(vm)) \o <<"]", "}", "]", ",">>
    \o <<"nodes", ":", "[">> \o Nodes(0, Len(vm)) \o <<"]", ",">>
    \o <<"meshes", ":", "[">> \o Meshes(0, Len(vm)) \o <<"]", ",">>
    \o <<"buffers", ":", "[">> \o Buffers(0, Len(vm)) \o <<"]", ",">>
    \o <<"bufferViews", ":", "[">> \o BufferViews(0, Len(vm)) \o <<"]", ",">>
    \o <<"accessors", ":", "[">> \o Accessors(0, Len(vm)) \o <<"]", ",">>
    \o <<"materials", ":", "[", "{", "doubleSided", ":", "true", "}", "]", ",">>
    \o <<"asset", ":", "{", "generator", ":", "morph::Visual::savegltf()", ",",
         "version", ":", "2.0", "}">>
    \o <<"}">>

----------------------------------------------------------------------------
(* key_callback *)

FKeys == <<"f1", "f2", "f3", "f4", "f5", "f6", "f7", "f8", "f9", "f10">>

IsFKey(_key) == \E k \in DOMAIN FKeys : FKeys[k] = _key

\* the model index (from 0) that a function key stands for
FKeyIndex(_key) == (CHOOSE k \in DOMAIN FKeys : FKeys[k] = _key) - 1

\* selectedVisualModel after a press of function key _key, with size models
\* in the scene
SelectModel(_key, size, selected) ==
    IF _key = "f1"
    THEN 0
    ELSE IF size > FKeyIndex(_key) THEN FKeyIndex(_key) ELSE selected

\* VisualModel::toggleHide, decAlpha and incAlpha; alpha in tenths
toggleHide(m) == [m EXCEPT !.hidden = ~m.hidden]

decAlpha(m) == [m EXCEPT !.alpha = IF m.alpha - 1 < 0 THEN 0 ELSE m.alpha - 1]

incAlpha(m) == [m EXCEPT !.alpha = IF m.alpha + 1 > 10 THEN 10 ELSE m.alpha + 1]

\* fov after Ctrl-o and after Ctrl-p
FovReduce(f) == IF f - 2 < 1 THEN 2 ELSE f - 2

FovIncrease(f) == IF f + 2 > 179 THEN 178 ELSE f + 2

\* CyclePtype going from cylindrical back to orthographic
CyclePtype_SkipsPerspective(p) ==
    IF p = "perspective"
    THEN "orthographic"
    ELSE IF p = "orthographic" THEN "cylindrical" ELSE "orthographic"

\* ptype after Ctrl-y
CyclePtype(p) ==
    IF p = "perspective"
    THEN "orthographic"
    ELSE IF p = "orthographic" THEN "cylindrical" ELSE "perspective"

\* ResetView without the reset of the rotation
ResetView_KeepsRotation == <<scenetrans_default, cyl_cam_pos_default, rotation>>

\* <<scenetrans, cyl_cam_pos, rotation>> after a reset of the view to default
ResetView == <<scenetrans_default, cyl_cam_pos_default, rotation_default>>

\* whether a key event is Ctrl-a on an unlocked scene: reset view to default
ResetsView(_key, mods, action, locked) ==
    ~locked /\ _key = "a" /\ "control" \in mods /\ action = "press"

\* the power of ten p, from p on, that leaves n \div p with at most six digits
RECURSIVE SixDigits(_, _)
SixDigits(n, p) == IF n \div p < 1000000 THEN p ELSE SixDigits(n, p * 10)

\* operator<< of an ostream for a float, at the default precision of six
\* significant digits, read as a number again
Stream(n) ==
    LET p == SixDigits(Abs(n), 1)
        r == ((Abs(n) + p \div 2) \div p) * p
    IN  IF n < 0 THEN -r ELSE r

\* the names of the fields that init_gl reads from the snapshot file
FieldNames == <<"scenetrans_x", "scenetrans_y", "scenetrans_z",
                "scenerotn_w", "scenerotn_x", "scenerotn_y", "scenerotn_z">>

\* a JSON object, written as <<name, number>> pairs, as its tuple of fields
Fields(object) ==
    LET Field(name) ==
            IF \E i \in DOMAIN object : object[i][1] = name
            THEN Num(object[CHOOSE i \in DOMAIN object : object[i][1] = name][2])
            ELSE Absent
    IN  <<Field(FieldNames[1]), Field(FieldNames[2]), Field(FieldNames[3]),
          Field(FieldNames[4]), Field(FieldNames[5]), Field(FieldNames[6]),
          Field(FieldNames[7])>>

\* what Ctrl-z writes into /tmp/Visual.json
WriteSnapshot ==
    Fields(<< <<"scenetrans_x", Stream(scenetrans[1])>>,
              <<"scenetrans_y", Stream(scenetrans[2])>>,
              <<"scenetrans_z", Stream(scenetrans[3])>>,
              <<"scenerotn_w", Stream(rotation[1])>>,
              <<"scenerotn_x", Stream(rotation[2])>>,
              <<"scenerotn_y", Stream(rotation[3])>>,
              <<"scenerotn_z", Stream(rotation[4])>> >>)

\* Ctrl-h writes to stdout and changes no member; Ctrl-m calls savegltf, and
\* Ctrl-z writes the snapshot file if it can be opened; neither changes a
\* member
key_callback(_key, mods, action) ==
    LET control == "control" \in mods
        shift   == "shift" \in mods
        press   == action = "press"
        held    == action = "press" \/ action = "repeat"
        toggleArrows == ~sceneLocked /\ _key = "c" /\ control /\ press
        \* the lock as the tests after the Ctrl-l block read it
        locked  == IF _key = "l" /\ control /\ press THEN ~sceneLocked ELSE sceneLocked
        selected == IF IsFKey(_key) /\ press
                    THEN SelectModel(_key, Len(vm), selectedVisualModel)
                    ELSE selectedVisualModel
        hide    == IsFKey(_key) /\ press /\ shift
        dec     == _key = "left" /\ held /\ shift /\ vm # <<>>
        inc     == _key = "right" /\ held /\ shift /\ vm # <<>>
        inside  == selected < Len(vm)
        reset   == ResetsView(_key, mods, action, locked)
        cycle   == _key = "y" /\ control /\ press
        quit    == _key = "q" /\ control /\ press
        snap    == _key = "s" /\ control /\ press
        gltf    == _key = "m" /\ control /\ press
        write   == _key = "z" /\ control /\ press
        radius  == IF _key = "up" /\ held /\ shift
                   THEN cyl_radius * 2
                   ELSE IF _key = "down" /\ held /\ shift
                        THEN cyl_radius \div 2
                        ELSE cyl_radius
        height  == IF _key = "up" /\ held /\ control
                   THEN cyl_height * 2
                   ELSE IF _key = "down" /\ held /\ control
                        THEN cyl_height \div 2
                        ELSE cyl_height
    IN  /\ showCoordArrows' = IF toggleArrows THEN ~showCoordArrows ELSE showCoordArrows
        /\ sceneLocked' = locked
        /\ selectedVisualModel' = selected
        /\ vm' = IF inside /\ hide
                 THEN [vm EXCEPT ![selected + 1] = toggleHide(@)]
                 ELSE IF inside /\ dec
                      THEN [vm EXCEPT ![selected + 1] = decAlpha(@)]
                      ELSE IF inside /\ inc
                           THEN [vm EXCEPT ![selected + 1] = incAlpha(@)]
                           ELSE vm
        /\ ub' = (ub \/ (~inside /\ (hide \/ dec \/ inc)))
        /\ scenetrans' = IF reset THEN ResetView[1] ELSE scenetrans
        /\ cyl_cam_pos' = IF reset THEN ResetView[2] ELSE cyl_cam_pos
        /\ rotation' = IF reset THEN ResetView[3] ELSE rotation
        /\ fov' = IF ~locked /\ _key = "o" /\ control /\ press
                  THEN FovReduce(fov)
                  ELSE IF ~locked /\ _key = "p" /\ control /\ press
                       THEN FovIncrease(fov)
                       ELSE fov
        /\ zNear' = IF ~locked /\ _key = "u" /\ control /\ press
                    THEN zNear \div 2
                    ELSE IF ~locked /\ _key = "i" /\ control /\ press
                         THEN zNear * 2
                         ELSE zNear
        /\ ptype' = IF cycle THEN CyclePtype(ptype) ELSE ptype
        /\ cyl_radius' = radius
        /\ cyl_height' = height
        /\ readyToFinish' = IF quit THEN signal_to_quit[1] ELSE readyToFinish
        /\ quit_calls' = IF quit THEN signal_to_quit[2] ELSE quit_calls
        /\ IF snap THEN saveImage ELSE UNCHANGED <<context, thrown>>
        /\ scene_gltf' \in IF gltf THEN {savegltf, scene_gltf} ELSE {scene_gltf}
        /\ Visual_json' \in IF write THEN {WriteSnapshot, Visual_json} ELSE {Visual_json}
        /\ ret' = (toggleArrows \/ reset \/ cycle)
        /\ UNCHANGED <<gestureVars, defaultVars, window_w, window_h, projection,
                       invproj, ortho_lb, ortho_rt, showTitle, nextId,
                       preventWindowCloseWithButton, external_quit_callback, gprog,
                       tprog, active_gprog, texts, frame>>

----------------------------------------------------------------------------
(* The registry of VisualModels *)

\* addVisualModelId and addVisualModel: the scene takes ownership of a model
\* that the client has constructed, appending it to vm
addVisualModel ==
    /\ vm' = Append(vm, [id |-> nextId, hidden |-> FALSE, alpha |-> 10,
                         twodimensional |-> FALSE])
    /\ nextId' = nextId + 1
    /\ UNCHANGED <<selectedVisualModel, ub>>
    /\ UNCHANGED <<gestureVars, cameraVars, defaultVars, projVars, flagVars, hostVars>>

\* addVisualModelId putting the model at the front of vm
addVisualModelId_AtFront ==
    /\ vm' = <<[id |-> nextId, hidden |-> FALSE, alpha |-> 10,
                         twodimensional |-> FALSE]>> \o vm
    /\ nextId' = nextId + 1
    /\ UNCHANGED <<selectedVisualModel, ub>>
    /\ UNCHANGED <<gestureVars, cameraVars, defaultVars, projVars, flagVars, hostVars>>

\* addVisualModelId: vm.push_back of the model; the index returned is
\* vm.size() - 1 after it
addVisualModelId ==
    /\ vm' = Append(vm, [id |-> nextId, hidden |-> FALSE, alpha |-> 10,
                         twodimensional |-> FALSE])
    /\ nextId' = nextId + 1
    /\ UNCHANGED <<selectedVisualModel, ub>>
    /\ UNCHANGED <<gestureVars, cameraVars, defaultVars, projVars, flagVars, hostVars>>

\* the loop of validVisualModel and of removeVisualModel (VisualModel* vmp):
\* the first modelId, from modelId on, whose model is vmp, or seq's size if
\* there is none
RECURSIVE FindModel(_, _, _)
FindModel(seq, vmp, modelId) ==
    IF modelId < Len(seq)
    THEN IF seq[modelId + 1].id = vmp THEN modelId ELSE FindModel(seq, vmp, modelId + 1)
    ELSE Len(seq)

\* a null pointer
nullptr == 0

\* validVisualModel without the search of vm
validVisualModel_Unsearched(vmp) == vmp

\* validVisualModel: vmp if a unique_ptr in vm owns it, else nullptr
validVisualModel(vmp) == IF FindModel(vm, vmp, 0) < Len(vm) THEN vmp ELSE nullptr

\* getVisualModel: the (non-owning) pointer to the model at modelId
getVisualModel(modelId) == vm[modelId + 1].id

\* Erase removing the last element whatever modelId is
Erase_Back(seq, modelId) == SubSeq(seq, 1, Len(seq) - 1)

\* vm.erase (vm.begin() + modelId)
Erase(seq, modelId) ==
    [i \in 1..(Len(seq) - 1) |-> IF i <= modelId THEN seq[i] ELSE seq[i + 1]]

\* removeVisualModel (unsigned int modelId), for a modelId inside vm
removeVisualModel(modelId) ==
    /\ vm' = Erase(vm, modelId)
    /\ UNCHANGED <<selectedVisualModel, nextId, ub>>
    /\ UNCHANGED <<gestureVars, cameraVars, defaultVars, projVars, flagVars, hostVars>>

\* removeVisualModel (VisualModel* vmp): erase the model if vm holds it
removeVisualModel_vmp(vmp) ==
    LET modelId     == FindModel(vm, vmp, 0)
        found_model == modelId < Len(vm)
    IN  /\ vm' = IF found_model THEN Erase(vm, modelId) ELSE vm
        /\ UNCHANGED <<selectedVisualModel, nextId, ub>>
        /\ UNCHANGED <<gestureVars, cameraVars, defaultVars, projVars, flagVars, hostVars>>

----------------------------------------------------------------------------
(* init_gl, addLabel *)

\* the handle that LoadShaders returns for a program it has loaded
LoadShaders == 1

\* the number of fields read before the read of a field throws
FieldsRead(file) ==
    IF \E i \in DOMAIN file : file[i].kind = "bad"
    THEN (CHOOSE i \in DOMAIN file :
              /\ file[i].kind = "bad"
              /\ \A j \in 1..(i - 1) : file[j].kind # "bad") - 1
    ELSE Len(file)

\* the value of a member after the assignment from field i of the file, if
\* the reads get that far: the field if the file contains it, else the member
ReadField(file, i, member) ==
    IF i <= FieldsRead(file) /\ file[i].kind = "num" THEN file[i].val ELSE member

\* <<scenetrans, scenetrans_default, rotation>> after the try block of init_gl
\* on a scene whose members have the values st, st_default and rotn
ReadSnapshot(file, st, st_default, rotn) ==
    LET _st == <<ReadField(file, 1, st[1]), ReadField(file, 2, st[2]),
                 ReadField(file, 3, st[3])>>
    IN  <<_st,
          IF FieldsRead(file) >= 3 THEN _st ELSE st_default,
          <<ReadField(file, 4, rotn[1]), ReadField(file, 5, rotn[2]),
            ReadField(file, 6, rotn[3]), ReadField(file, 7, rotn[4])>>>>

\* init_gl: the shaders are loaded, then scenetrans and rotation are read
\* from the snapshot file, if possible, and scenetrans is copied to
\* scenetrans_default; the context is set on entry and released at the end
init_gl(file) ==
    /\ gprog' = LoadShaders
    /\ active_gprog' = "projection2d"
    /\ tprog' = LoadShaders
    /\ scenetrans' = ReadSnapshot(file, scenetrans, scenetrans_default, rotation)[1]
    /\ scenetrans_default' =
           ReadSnapshot(file, scenetrans, scenetrans_default, rotation)[2]
    /\ rotation' = ReadSnapshot(file, scenetrans, scenetrans_default, rotation)[3]
    /\ context' = FALSE
    /\ thrown' = FALSE
    /\ UNCHANGED <<gestureVars, cyl_cam_pos, rotation_default, cyl_cam_pos_default,
                   projVars, flagVars, regVars, quitVars, texts, frame, scene_gltf>>

\* VisualOwnable (_width, _height, _title): a scene is constructed in the
\* place of the one there was, with the member initialisers and the given
\* window size; the constructor calls init_gl
VisualOwnable(_width, _height, file) ==
    /\ window_w' = _width
    /\ window_h' = _height
    /\ cursorpos' = <<0, 0>>
    /\ mousePressPosition' = <<0, 0>>
    /\ rotateMode' = FALSE
    /\ rotateModMode' = FALSE
    /\ translateMode' = FALSE
    /\ scenetrans' =
           ReadSnapshot(file, <<0, 0, zDefault>>, <<0, 0, zDefault>>, QuatIdentity)[1]
    /\ scenetrans_default' =
           ReadSnapshot(file, <<0, 0, zDefault>>, <<0, 0, zDefault>>, QuatIdentity)[2]
    /\ rotation' =
           ReadSnapshot(file, <<0, 0, zDefault>>, <<0, 0, zDefault>>, QuatIdentity)[3]
    /\ rotation_default' = QuatIdentity
    /\ savedRotation' = QuatIdentity
    /\ invscene' = MatIdentity
    /\ projection' = MatIdentity
    /\ invproj' = MatIdentity
    /\ cyl_cam_pos' = <<0, 0, 0, 1>>
    /\ cyl_cam_pos_default' = <<0, 0, 0, 1>>
    /\ fov' = fov_default
    /\ zNear' = 2 ^ MaxZNearHalvings
    /\ ptype' = "perspective"
    /\ ortho_lb' = <<-13, -10>>
    /\ ortho_rt' = <<13, 10>>
    /\ cyl_radius' = 2 ^ MaxCylHalvings
    /\ cyl_height' = 2 * 2 ^ MaxCylHalvings
    /\ sceneLocked' = FALSE
    /\ showCoordArrows' = FALSE
    /\ showTitle' = FALSE
    /\ vm' = <<>>
    /\ selectedVisualModel' = 0
    /\ nextId' = nextId
    /\ ub' = FALSE
    /\ readyToFinish' = FALSE
    /\ preventWindowCloseWithButton' = FALSE
    /\ external_quit_callback' = FALSE
    /\ quit_calls' = 0
    /\ context' = FALSE
    /\ gprog' = LoadShaders
    /\ tprog' = LoadShaders
    /\ active_gprog' = "projection2d"
    /\ texts' = <<>>
    /\ thrown' = FALSE
    /\ UNCHANGED <<frame, scene_gltf>>

\* addLabel (_text, _toffset, tfeatures): setContext, then a throw if there
\* is no text shader program, else the label is set up and added to texts
\* and the context is released
addLabel(_text, centre_horz) ==
    /\ IF tprog = 0
       THEN /\ context' = TRUE
            /\ thrown' = TRUE
            /\ UNCHANGED texts
       ELSE /\ texts' = Append(texts, [text |-> _text, centre_horz |-> centre_horz])
            /\ context' = FALSE
            /\ thrown' = FALSE
    /\ UNCHANGED <<gprog, tprog, active_gprog, quitVars, outVars>>
    /\ UNCHANGED <<gestureVars, cameraVars, defaultVars, projVars, flagVars, regVars>>

\* addLabel_tm adding the label before the test of the text shader program
addLabel_tm_AddsFirst(_text, centre_horz) ==
    /\ texts' = Append(texts, [text |-> _text, centre_horz |-> centre_horz])
    /\ IF tprog = 0
       THEN /\ context' = TRUE
            /\ thrown' = TRUE
       ELSE /\ context' = FALSE
            /\ thrown' = FALSE
    /\ UNCHANGED <<gprog, tprog, active_gprog, quitVars, outVars>>
    /\ UNCHANGED <<gestureVars, cameraVars, defaultVars, projVars, flagVars, regVars>>

\* addLabel (_text, _toffset, tm, tfeatures): the same, and tm is set to
\* point to the label
addLabel_tm(_text, centre_horz) ==
    /\ IF tprog = 0
       THEN /\ context' = TRUE
            /\ thrown' = TRUE
            /\ UNCHANGED texts
       ELSE /\ texts' = Append(texts, [text |-> _text, centre_horz |-> centre_horz])
            /\ context' = FALSE
            /\ thrown' = FALSE
    /\ UNCHANGED <<gprog, tprog, active_gprog, quitVars, outVars>>
    /\ UNCHANGED <<gestureVars, cameraVars, defaultVars, projVars, flagVars, regVars>>

----------------------------------------------------------------------------
(* render: frame is the sequence of the GL operations and of the calls on  *)
(* the models and labels that it makes                                     *)

\* an operation, the handle, model or label it is on, and its matrix
Step(op, id, m) == [op |-> op, id |-> id, m |-> m]

\* the graphics_shader_type that render wants for a perspective_type
RequiredShader(p) == IF p = "cylindrical" THEN "cylindrical" ELSE "projection2d"

\* ShaderSteps loading the program in every render
ShaderSteps_EveryFrame ==
    (IF gprog # 0 THEN <<Step("DeleteProgram", gprog, <<>>)>> ELSE <<>>)
        \o <<Step("LoadShaders", LoadShaders, <<RequiredShader(ptype)>>)>>

\* the program for ptype is loaded if it is not the active one, after the
\* program there is, if any, has been deleted
ShaderSteps ==
    IF active_gprog # RequiredShader(ptype)
    THEN (IF gprog # 0 THEN <<Step("DeleteProgram", gprog, <<>>)>> ELSE <<>>)
             \o <<Step("LoadShaders", LoadShaders, <<RequiredShader(ptype)>>)>>
    ELSE <<>>

\* shaders.gprog after the selection of the program
GprogAfter == IF active_gprog # RequiredShader(ptype) THEN LoadShaders ELSE gprog

\* <<projection, invproj>> after setOrthographic and after setPerspective
setOrthographic ==
    <<Orthographic(ortho_lb, ortho_rt, zNear, zFar),
      Invert(Orthographic(ortho_lb, ortho_rt, zNear, zFar))>>

setPerspective ==
    LET height == IF window_h # 0 THEN window_h ELSE 1
    IN  <<Perspective(fov, window_w, height, zNear, zFar),
          Invert(Perspective(fov, window_w, height, zNear, zFar))>>

\* SetProjection calling setPerspective for the cylindrical projection too
SetProjection_Always ==
    IF ptype = "orthographic" THEN setOrthographic ELSE setPerspective

\* <<projection, invproj>> after "Set the perspective": the cylindrical
\* projection sets uniforms only
SetProjection ==
    IF ptype = "orthographic"
    THEN setOrthographic
    ELSE IF ptype = "perspective" THEN setPerspective ELSE <<projection, invproj>>

ProjectionSteps ==
    IF ptype = "orthographic"
    THEN <<Step("setOrthographic", 0, SetProjection[1])>>
    ELSE IF ptype = "perspective"
         THEN <<Step("setPerspective", 0, SetProjection[1])>>
         ELSE <<Step("Uniform4fv cyl_cam_pos", 0, cyl_cam_pos),
                Step("Uniform1f cyl_radius", cyl_radius, <<>>),
                Step("Uniform1f cyl_height", cyl_height, <<>>)>>

\* the model view transformation: the translation is left out of it in the
\* cylindrical projection
sceneview ==
    MatMul(IF ptype = "orthographic" \/ ptype = "perspective"
           THEN TranslationMatrix(scenetrans)
           ELSE MatIdentity,
           RotationMatrix(rotation))

scenetransonly == TranslationMatrix(scenetrans)

\* the coordinate arrows, positioned (coordArrowsInScene is false) and drawn
ArrowSteps ==
    IF (ptype = "orthographic" \/ ptype = "perspective") /\ showCoordArrows
    THEN <<Step("positionCoordArrows", 0, <<>>), Step("coordArrows->render", 0, <<>>)>>
    ELSE <<>>

\* ModelSteps giving every model the matrix sceneview
RECURSIVE ModelSteps_AllSceneview(_)
ModelSteps_AllSceneview(vmi) ==
    IF vmi <= Len(vm)
    THEN <<Step("setSceneMatrix", vm[vmi].id, sceneview),
           Step("render", vm[vmi].id, <<>>)>> \o ModelSteps_AllSceneview(vmi + 1)
    ELSE <<>>

\* the loop over vm, from the model at vmi on
RECURSIVE ModelSteps(_)
ModelSteps(vmi) ==
    IF vmi <= Len(vm)
    THEN <<Step("setSceneMatrix", vm[vmi].id,
                IF vm[vmi].twodimensional THEN scenetransonly ELSE sceneview),
           Step("render", vm[vmi].id, <<>>)>> \o ModelSteps(vmi + 1)
    ELSE <<>>

TitleSteps ==
    IF showTitle THEN <<Step("textModel->render", 0, <<>>)>> ELSE <<>>

\* the loop over texts, from the label at ti on
RECURSIVE TextSteps(_)
TextSteps(ti) ==
    IF ti <= Len(texts)
    THEN <<Step("texts->render", ti, <<>>)>> \o TextSteps(ti + 1)
    ELSE <<>>

\* RenderFrame drawing the labels before the title
RenderFrame_TitleLast ==
    ShaderSteps
        \o <<Step("UseProgram", GprogAfter, <<>>), Step("Viewport", 0, <<>>)>>
        \o ProjectionSteps
        \o <<Step("Clear", 0, <<>>), Step("ClearBufferfv", 0, <<>>),
             Step("Uniform lighting", GprogAfter, <<>>),
             Step("UseProgram", tprog, <<>>),
             Step("UniformMatrix4fv p_matrix", tprog, SetProjection[1]),
             Step("UseProgram", GprogAfter, <<>>),
             Step("UniformMatrix4fv p_matrix", GprogAfter, SetProjection[1])>>
        \o ArrowSteps
        \o ModelSteps(1)
        \o TextSteps(1)
        \o TitleSteps
        \o <<Step("swapBuffers", 0, <<>>)>>

\* what render does, in order
RenderFrame ==
    ShaderSteps
        \o <<Step("UseProgram", GprogAfter, <<>>), Step("Viewport", 0, <<>>)>>
        \o ProjectionSteps
        \o <<Step("Clear", 0, <<>>), Step("ClearBufferfv", 0, <<>>),
             Step("Uniform lighting", GprogAfter, <<>>),
             Step("UseProgram", tprog, <<>>),
             Step("UniformMatrix4fv p_matrix", tprog, SetProjection[1]),
             Step("UseProgram", GprogAfter, <<>>),
             Step("UniformMatrix4fv p_matrix", GprogAfter, SetProjection[1])>>
        \o ArrowSteps
        \o ModelSteps(1)
        \o TitleSteps
        \o TextSteps(1)
        \o <<Step("swapBuffers", 0, <<>>)>>

\* render, on a scene that init has set up: setContext on entry, and no
\* releaseContext after swapBuffers
render ==
    /\ gprog' = GprogAfter
    /\ active_gprog' = RequiredShader(ptype)
    /\ projection' = SetProjection[1]
    /\ invproj' = SetProjection[2]
    /\ frame' = RenderFrame
    /\ context' = TRUE
    /\ thrown' = FALSE
    /\ UNCHANGED <<window_w, window_h, fov, zNear, ptype, ortho_lb, ortho_rt,
                   cyl_radius, cyl_height, tprog, texts, Visual_json, scene_gltf>>
    /\ UNCHANGED <<gestureVars, cameraVars, defaultVars, flagVars, regVars, quitVars>>

----------------------------------------------------------------------------
(* window_size_callback *)

window_size_callback(width, height) ==
    /\ window_w' = width
    /\ window_h' = height
    /\ ret' = TRUE
    /\ UNCHANGED <<projection, invproj, fov, zNear, ptype, ortho_lb, ortho_rt,
                   cyl_radius, cyl_height>>
    /\ UNCHANGED <<gestureVars, cameraVars, defaultVars, flagVars, regVars, hostVars>>

----------------------------------------------------------------------------
(* setSceneTrans, setSceneRotation, rotate_scene *)

setSceneTrans(_xyz) ==
    /\ scenetrans' = _xyz
    /\ scenetrans_default' = _xyz
    /\ UNCHANGED <<rotation, cyl_cam_pos, rotation_default, cyl_cam_pos_default>>
    /\ UNCHANGED <<gestureVars, projVars, flagVars, regVars, hostVars>>

setSceneRotation(_rotn) ==
    /\ rotation' = _rotn
    /\ rotation_default' = _rotn
    /\ UNCHANGED <<scenetrans, cyl_cam_pos, scenetrans_default, cyl_cam_pos_default>>
    /\ UNCHANGED <<gestureVars, projVars, flagVars, regVars, hostVars>>

\* rotate_scene: the scene is turned about axis by angle, given in half turns
rotate_scene(axis, angle) ==
    /\ rotation' = QuatMul(rotation, QuatFromAxisAngle(axis, -angle))
    /\ UNCHANGED <<scenetrans, cyl_cam_pos, defaultVars>>
    /\ UNCHANGED <<gestureVars, projVars, flagVars, regVars, hostVars>>

----------------------------------------------------------------------------
(* window_close_callback *)

window_close_callback ==
    /\ IF preventWindowCloseWithButton = FALSE
       THEN /\ readyToFinish' = signal_to_quit[1]
            /\ quit_calls' = signal_to_quit[2]
       ELSE UNCHANGED <<readyToFinish, quit_calls>>
    /\ UNCHANGED <<preventWindowCloseWithButton, external_quit_callback, glVars,
                   outVars>>
    /\ UNCHANGED <<gestureVars, cameraVars, defaultVars, projVars, flagVars, regVars>>

----------------------------------------------------------------------------
(* Events: a handler, with the record of the event and of what it returned *)

Event(kind, _key, mods, action, x, y) ==
    [kind |-> kind, key |-> _key, mods |-> mods, action |-> action, x |-> x, y |-> y]

MouseButton(button, action, mods) ==
    /\ mouse_button_callback(button, action, mods)
    /\ ev' = Event("button", button, mods, action, 0, 0)
    /\ ret' = FALSE
    /\ UNCHANGED <<ptype_trail, gesture>>

CursorMove(p) ==
    /\ cursor_position_callback(p)
    /\ ev' = Event("cursor", "", {}, "", p[1], p[2])
    /\ UNCHANGED <<ptype_trail, gesture>>

Scroll(xoffset, yoffset) ==
    /\ scroll_callback(xoffset, yoffset)
    /\ ev' = Event("scroll", "", {}, "", xoffset, yoffset)
    /\ UNCHANGED <<ptype_trail, gesture>>

\* the last three elements of a sequence
LastThree(seq) == IF Len(seq) <= 3 THEN seq ELSE SubSeq(seq, Len(seq) - 2, Len(seq))

Key(_key, mods, action) ==
    /\ key_callback(_key, mods, action)
    /\ ev' = Event("key", _key, mods, action, 0, 0)
    /\ ptype_trail' = IF _key = "y" /\ "control" \in mods /\ action = "press"
                      THEN LastThree(Append(ptype_trail, ptype))
                      ELSE ptype_trail
    /\ UNCHANGED gesture

\* addVisualModel; y records the pointer returned, vm.back().get()
AddModel ==
    /\ nextId <= MaxModels
    /\ addVisualModel
    /\ ev' = Event("add", "", {}, "", 0, vm'[Len(vm')].id)
    /\ ret' = FALSE
    /\ UNCHANGED <<ptype_trail, gesture>>

\* addVisualModelId; x records the index returned, y the model passed in
AddModelId ==
    /\ nextId <= MaxModels
    /\ addVisualModelId
    /\ ev' = Event("addId", "", {}, "", Len(vm') - 1, nextId)
    /\ ret' = FALSE
    /\ UNCHANGED <<ptype_trail, gesture>>

\* removeVisualModel (VisualModel* vmp); x records vmp
RemoveModelPtr(vmp) ==
    /\ removeVisualModel_vmp(vmp)
    /\ ev' = Event("removePtr", "", {}, "", vmp, 0)
    /\ ret' = FALSE
    /\ UNCHANGED <<ptype_trail, gesture>>

\* validVisualModel (vmp), a const member; x records vmp, y what it returned
ValidModel(vmp) ==
    /\ ev' = Event("valid", "", {}, "", vmp, validVisualModel(vmp))
    /\ ret' = FALSE
    /\ UNCHANGED <<gestureVars, cameraVars, defaultVars, projVars, flagVars, regVars,
                   hostVars, ptype_trail, gesture>>

RemoveModel(modelId) ==
    /\ removeVisualModel(modelId)
    /\ ev' = Event("remove", "", {}, "", modelId, 0)
    /\ ret' = FALSE
    /\ UNCHANGED <<ptype_trail, gesture>>

WindowClose ==
    /\ window_close_callback
    /\ ev' = Event("close", "", {}, "", 0, 0)
    /\ ret' = FALSE
    /\ UNCHANGED <<ptype_trail, gesture>>

\* the client code sets the public members preventWindowCloseWithButton and
\* external_quit_callback
SetQuitOptions(prevent, callback) ==
    /\ preventWindowCloseWithButton' = prevent
    /\ external_quit_callback' = callback
    /\ ev' = Event("options", "", {}, "", 0, 0)
    /\ ret' = FALSE
    /\ UNCHANGED <<readyToFinish, quit_calls, glVars, outVars, ptype_trail, gesture>>
    /\ UNCHANGED <<gestureVars, cameraVars, defaultVars, projVars, flagVars, regVars>>

\* init (ctx), which calls init_gl; file is what /tmp/Visual.json, which any
\* process can write, holds at the call
InitGl(file) ==
    /\ Visual_json' = file
    /\ init_gl(file)
    /\ ev' = Event("init_gl", "", {}, "", 0, 0)
    /\ ret' = FALSE
    /\ UNCHANGED <<ptype_trail, gesture>>

\* the constructor with a width, a height and a title
NewScene(_width, _height, file) ==
    /\ Visual_json' = file
    /\ VisualOwnable(_width, _height, file)
    /\ ev' = Event("new", "", {}, "", _width, _height)
    /\ ret' = FALSE
    /\ ptype_trail' = <<>>
    /\ UNCHANGED gesture

\* savegltf (gltf_file), which throws if the file cannot be opened; x
\* records whether it was
SaveGltf(opened) ==
    /\ scene_gltf' = IF opened THEN savegltf ELSE scene_gltf
    /\ ev' = Event("savegltf", "", {}, "", IF opened THEN 1 ELSE 0, 0)
    /\ ret' = FALSE
    /\ UNCHANGED <<quitVars, glVars, frame, Visual_json, ptype_trail, gesture>>
    /\ UNCHANGED <<gestureVars, cameraVars, defaultVars, projVars, flagVars, regVars>>

\* a button event of which gesture records, for a press that is handled,
\* where the cursor and the camera were; steady says that the window is
\* still what it was at the press
ObservedButton(button, action, mods) ==
    /\ mouse_button_callback(button, action, mods)
    /\ ev' = Event("button", button, mods, action, 0, 0)
    /\ ret' = FALSE
    /\ gesture' = IF action = "press" /\ ~sceneLocked
                  THEN [at |-> cursorpos, scenetrans |-> scenetrans,
                        cyl_cam_pos |-> cyl_cam_pos, rotation |-> rotation,
                        steady |-> TRUE]
                  ELSE gesture
    /\ UNCHANGED ptype_trail

\* a resize, after which the gesture is not steady
ObservedWindowSize(width, height) ==
    /\ window_size_callback(width, height)
    /\ ev' = Event("size", "", {}, "", width, height)
    /\ gesture' = [gesture EXCEPT !.steady = FALSE]
    /\ UNCHANGED ptype_trail

Render ==
    /\ render
    /\ ev' = Event("render", "", {}, "", 0, 0)
    /\ ret' = FALSE
    /\ UNCHANGED <<ptype_trail, gesture>>

\* the client code sets the public member twodimensional of a model that
\* the scene owns
SetTwoDimensional(modelId) ==
    /\ vm' = [vm EXCEPT ![modelId + 1].twodimensional = TRUE]
    /\ ev' = Event("twodimensional", "", {}, "", modelId, 0)
    /\ ret' = FALSE
    /\ UNCHANGED <<selectedVisualModel, nextId, ub, ptype_trail, gesture>>
    /\ UNCHANGED <<gestureVars, cameraVars, defaultVars, projVars, flagVars, hostVars>>

\* the client code sets the public member showTitle
SetShowTitle(show) ==
    /\ showTitle' = show
    /\ ev' = Event("showTitle", "", {}, "", 0, 0)
    /\ ret' = FALSE
    /\ UNCHANGED <<sceneLocked, showCoordArrows, ptype_trail, gesture>>
    /\ UNCHANGED <<gestureVars, cameraVars, defaultVars, projVars, regVars, hostVars>>

WindowSize(width, height) ==
    /\ window_size_callback(width, height)
    /\ ev' = Event("size", "", {}, "", width, height)
    /\ UNCHANGED <<ptype_trail, gesture>>

SetSceneTrans(_xyz) ==
    /\ setSceneTrans(_xyz)
    /\ ev' = Event("setSceneTrans", "", {}, "", 0, 0)
    /\ ret' = FALSE
    /\ UNCHANGED <<ptype_trail, gesture>>

SetSceneRotation(_rotn) ==
    /\ setSceneRotation(_rotn)
    /\ ev' = Event("setSceneRotation", "", {}, "", 0, 0)
    /\ ret' = FALSE
    /\ UNCHANGED <<ptype_trail, gesture>>

RotateScene(axis, angle) ==
    /\ rotate_scene(axis, angle)
    /\ ev' = Event("rotate_scene", "", {}, "", angle, 0)
    /\ ret' = FALSE
    /\ UNCHANGED <<ptype_trail, gesture>>

\* addLabel; key records the text, x the overload, y the length of texts
\* before the call
AddLabel(_text, centre_horz, overload) ==
    /\ IF overload = 1
       THEN addLabel(_text, centre_horz)
       ELSE addLabel_tm(_text, centre_horz)
    /\ ev' = Event("addLabel", _text, {}, "", overload, Len(texts))
    /\ ret' = FALSE
    /\ UNCHANGED <<ptype_trail, gesture>>

SaveImage ==
    /\ saveImage
    /\ ev' = Event("saveImage", "", {}, "", 0, 0)
    /\ ret' = FALSE
    /\ UNCHANGED <<gprog, tprog, active_gprog, texts, quitVars, outVars, ptype_trail, gesture>>
    /\ UNCHANGED <<gestureVars, cameraVars, defaultVars, projVars, flagVars, regVars>>

IsKey(e, _key, mods, action) ==
    e.kind = "key" /\ e.key = _key /\ e.mods = mods /\ e.action = action

----------------------------------------------------------------------------
(* Spec: gestures, scrolling, the scene lock and the view keys *)

\* the pixel distance that turns the scene by 180 degrees in a window of the
\* default width: 4.5 world units at 40 degrees per unit
CursorStep == (9 * window_w_default) \div 4

CursorPositions == {<<i * CursorStep, 0>> : i \in 0..MaxCursor}

Buttons == {"left", "right", "middle"}

ButtonActions == {"press", "release"}

ButtonMods == {{}, {"control"}}

ViewKeys == {"a", "l"}

ScrollOffsets == {<<1, 1>>}

\* the part of the state space that is explored
Bounded ==
    /\ \A i \in 1..3 : Abs(scenetrans[i] - scenetrans_default[i]) <= MaxTrans
    /\ cyl_cam_pos[4] <= MaxCylW

Init == Construct

Next ==
    \/ \E b \in Buttons, a \in ButtonActions, m \in ButtonMods :
           MouseButton(b, a, m) /\ Bounded'
    \/ \E p \in CursorPositions : CursorMove(p) /\ Bounded'
    \/ \E s \in ScrollOffsets : Scroll(s[1], s[2]) /\ Bounded'
    \/ \E k \in ViewKeys : Key(k, {"control"}, "press") /\ Bounded'

Spec == Init /\ [][Next]_vars

CtrlPress(e, _key) == IsKey(e, _key, {"control"}, "press")

ButtonEvent(e, button, action) ==
    e.kind = "button" /\ e.key = button /\ e.action = action

\* C1: after a Ctrl-a press handled on an unlocked scene, scenetrans,
\* rotation and cyl_cam_pos equal their defaults and key_callback has
\* returned true.
C1_ResetRestoresDefaults ==
    (CtrlPress(ev, "a") /\ ~sceneLocked) =>
        /\ scenetrans = scenetrans_default
        /\ rotation = rotation_default
        /\ cyl_cam_pos = cyl_cam_pos_default
        /\ ret = TRUE

\* a reset handled after a gesture that had turned the scene, during a
\* later rotate gesture, and the camera is back at its defaults
C1_Witness ==
    /\ CtrlPress(ev, "a")
    /\ ~sceneLocked
    /\ rotateMode
    /\ savedRotation # rotation_default
    /\ rotation = rotation_default
    /\ scenetrans = scenetrans_default

\* C2: an event handled while sceneLocked is true leaves scenetrans,
\* rotation, fov and zNear unchanged, also when the lock was set during a
\* gesture.
C2_LockedEventsLeaveCamera ==
    [][sceneLocked =>
          /\ scenetrans' = scenetrans
          /\ rotation' = rotation
          /\ fov' = fov
          /\ zNear' = zNear]_vars

\* C3: on a locked scene with no gesture active, a button press starts no
\* gesture, and a press or a cursor move leaves scenetrans and rotation
\* unchanged, while a cursor move sets cursorpos to the position it
\* reports.  The conclusion restores the premise, so this covers a
\* secondary press followed by any number of cursor moves.
C3_LockedGestureLeavesCamera ==
    [][(sceneLocked /\ ~rotateMode /\ ~translateMode
            /\ ev'.kind \in {"button", "cursor"}) =>
          /\ scenetrans' = scenetrans
          /\ rotation' = rotation
          /\ ~rotateMode' /\ ~translateMode' /\ sceneLocked'
          /\ (ev'.kind = "cursor" => cursorpos' = <<ev'.x, ev'.y>>)]_vars

\* a cursor move handled on a locked scene with no gesture active: the
\* cursor has left the origin, where a button press was handled before, and
\* the camera is where it was
C3_Witness ==
    /\ ev.kind = "cursor"
    /\ sceneLocked
    /\ ~rotateMode /\ ~translateMode
    /\ cursorpos = <<CursorStep, 0>>
    /\ mousePressPosition = <<0, 0>>
    /\ scenetrans = scenetrans_default
    /\ rotation = rotation_default

\* C4 as stated: the modes are never both on, and after a primary press
\* (locked or not) translate mode is off, after a secondary press rotate
\* mode is off.
C4_PressClearsOtherMode ==
    /\ ~(rotateMode /\ translateMode)
    /\ (ButtonEvent(ev, "left", "press") => ~translateMode)
    /\ (ButtonEvent(ev, "right", "press") => ~rotateMode)

\* C4 as amended: the modes are never both on, and after a primary press
\* handled while the scene is unlocked translate mode is off, after a
\* secondary press handled while unlocked rotate mode is off.
C4_UnlockedPressClearsOtherMode ==
    /\ ~(rotateMode /\ translateMode)
    /\ ((ButtonEvent(ev, "left", "press") /\ ~sceneLocked) =>
            (rotateMode /\ ~translateMode))
    /\ ((ButtonEvent(ev, "right", "press") /\ ~sceneLocked) =>
            (translateMode /\ ~rotateMode))

\* a primary press handled, unlocked, after a translate gesture has moved
\* the scene: rotate mode is on and translate mode off
C4_Witness ==
    /\ ButtonEvent(ev, "left", "press")
    /\ ~sceneLocked
    /\ rotateMode /\ ~translateMode
    /\ scenetrans # scenetrans_default

\* C5: after a release of the primary button rotate mode is inactive, and
\* after a release of the secondary button translate mode is inactive.
C5_ReleaseEndsMode ==
    /\ (ButtonEvent(ev, "left", "release") => ~rotateMode)
    /\ (ButtonEvent(ev, "right", "release") => ~translateMode)

\* C16: cursor_position_callback returns true if and only if rotate mode
\* or translate mode is active when it is called; with no mode active it
\* changes nothing except cursorpos.
C16_CursorReturnsModeActive ==
    [][ev'.kind = "cursor" =>
          /\ ret' = (rotateMode \/ translateMode)
          /\ (~rotateMode /\ ~translateMode) =>
                UNCHANGED <<mousePressPosition, rotateMode, rotateModMode,
                            translateMode, savedRotation, invscene, cameraVars,
                            defaultVars, projVars, flagVars, regVars, hostVars>>]_vars

\* a cursor move handled, unlocked, with no mode active after a translate
\* gesture has moved the scene: it has returned false
C16_Witness ==
    /\ ev.kind = "cursor"
    /\ ~ret
    /\ ~sceneLocked
    /\ ~rotateMode /\ ~translateMode
    /\ cursorpos = <<CursorStep, 0>>
    /\ mousePressPosition = <<0, 0>>
    /\ scenetrans # scenetrans_default

----------------------------------------------------------------------------
(* SpecFov: the keys that change fov and zNear, and the scene lock, on a   *)
(* scene whose fov the client code has set to a value in FovStarts         *)

FovStarts == 2..178

FovKeys == {"o", "p", "u", "i", "l"}

BoundedFov ==
    /\ zNear >= 1
    /\ zNear <= 2 ^ (2 * MaxZNearHalvings)

InitFov == \E f \in FovStarts : Members(f, "perspective", <<-13, -10>>, <<13, 10>>)

NextFov == \E k \in FovKeys : Key(k, {"control"}, "press") /\ BoundedFov'

SpecFov == InitFov /\ [][NextFov]_vars

\* C6: for every sequence of Ctrl-o and Ctrl-p presses on a scene whose fov
\* starts in [2, 178], fov is within [2, 178] after each event.
C6_FovWithin2And178 == fov >= 2 /\ fov <= 178

----------------------------------------------------------------------------
(* SpecOrtho: scrolling, cycling the projection type and the scene lock,   *)
(* on a scene that the client code has set to orthographic projection with *)
(* bounds ortho_lb < 0 < ortho_rt                                          *)

OrthoStarts ==
    { <<<<-13, -10>>, <<13, 10>>>>,
      <<<<-3, -10>>, <<13, 2>>>>,
      <<<<-1, -1>>, <<1, 1>>>> }

OrthoKeys == {"y", "l"}

\* offset pairs of a mouse with a second scroll wheel
SecondWheelOffsets == {<<1, -1>>, <<-1, 0>>}

BoundedOrtho ==
    /\ Bounded
    /\ \A i \in 1..2 : Abs(ortho_lb[i]) <= MaxOrtho /\ Abs(ortho_rt[i]) <= MaxOrtho

InitOrtho == \E b \in OrthoStarts : Members(fov_default, "orthographic", b[1], b[2])

NextOrtho ==
    \/ \E yoffset \in (-MaxScroll)..MaxScroll : Scroll(0, yoffset) /\ BoundedOrtho'
    \/ \E s \in SecondWheelOffsets : Scroll(s[1], s[2]) /\ BoundedOrtho'
    \/ \E k \in OrthoKeys : Key(k, {"control"}, "press") /\ BoundedOrtho'

SpecOrtho == InitOrtho /\ [][NextOrtho]_vars

\* C7: with bounds starting with ortho_lb < 0 < ortho_rt, after every scroll
\* event both components of ortho_lb are < 0 and both of ortho_rt are > 0.
C7_OrthoBoundsKeepSign ==
    \A i \in 1..2 : ortho_lb[i] < 0 /\ ortho_rt[i] > 0

\* unlocked orthographic zoom-ins have brought the default bounds next to
\* zero
C7_Witness ==
    /\ ev.kind = "scroll"
    /\ ev.y > 0
    /\ ptype = "orthographic"
    /\ ~sceneLocked
    /\ ortho_lb = <<-4, -1>>
    /\ ortho_rt = <<4, 1>>

\* whether rescaling the bounds lb, rt by yoffset takes one of their
\* components to or across zero
Crosses(lb, rt, yoffset) ==
    \E i \in 1..2 :
        \/ lb[i] + yoffset * scenetrans_stepsize >= 0
        \/ rt[i] - yoffset * scenetrans_stepsize <= 0

\* C8: an unlocked orthographic scroll whose rescaled bounds would have a
\* non-negative component of ortho_lb or a non-positive component of
\* ortho_rt changes nothing and returns true; and no scroll changes one of
\* ortho_lb, ortho_rt without the other.
C8_CrossingRescaleRejected ==
    [][ev'.kind = "scroll" =>
          /\ (ortho_lb' = ortho_lb) <=> (ortho_rt' = ortho_rt)
          /\ (~sceneLocked /\ ptype = "orthographic"
                  /\ Crosses(ortho_lb, ortho_rt, ev'.y)) =>
                /\ ortho_lb' = ortho_lb
                /\ ortho_rt' = ortho_rt
                /\ UNCHANGED <<gestureVars, cameraVars, defaultVars, projVars,
                               flagVars, regVars, hostVars>>
                /\ ret' = TRUE]_vars

\* an unlocked orthographic scroll by 2 handled with the bounds at
\* <<-3, -10>>, <<13, 2>>: only the top bound would reach zero, and both
\* bounds are as they were
C8_Witness ==
    /\ ev.kind = "scroll"
    /\ ev.y = 2
    /\ ptype = "orthographic"
    /\ ~sceneLocked
    /\ ret
    /\ ortho_lb = <<-3, -10>>
    /\ ortho_rt = <<13, 2>>
    /\ ptype_trail = <<>>

PtypeOrder ==
    { <<"perspective", "orthographic">>,
      <<"orthographic", "cylindrical">>,
      <<"cylindrical", "perspective">> }

\* C9: each Ctrl-y press takes ptype one step along perspective ->
\* orthographic -> cylindrical -> perspective and returns true; after three
\* presses ptype is what it was before them, after one or two it is not.
C9_PtypeThreeCycle ==
    LET n == Len(ptype_trail)
    IN  /\ n >= 1 => <<ptype_trail[n], ptype>> \in PtypeOrder
        /\ n >= 1 => ptype # ptype_trail[n]
        /\ n >= 2 => ptype # ptype_trail[n - 1]
        /\ n >= 3 => ptype = ptype_trail[n - 2]
        /\ CtrlPress(ev, "y") => ret = TRUE

\* the third of three Ctrl-y presses has brought ptype back
C9_Witness ==
    /\ CtrlPress(ev, "y")
    /\ Len(ptype_trail) = 3
    /\ ptype = ptype_trail[1]
    /\ ptype # ptype_trail[2]
    /\ ptype # ptype_trail[3]
    /\ ret

\* C17: a scroll handled while sceneLocked is true returns false and
\* changes no state; handled while unlocked it returns true, for every
\* projection type and every pair of offsets.
C17_ScrollLockedReturnsFalse ==
    [][ev'.kind = "scroll" =>
          IF sceneLocked
          THEN /\ ret' = FALSE
               /\ UNCHANGED <<gestureVars, cameraVars, defaultVars, projVars,
                              flagVars, regVars, hostVars>>
          ELSE ret' = TRUE]_vars

\* a scroll of both wheels handled on a locked scene in cylindrical
\* projection has returned false
C17_Witness ==
    /\ ev.kind = "scroll"
    /\ ev.x = 1 /\ ev.y = -1
    /\ sceneLocked
    /\ ptype = "cylindrical"
    /\ ~ret

----------------------------------------------------------------------------
(* SpecReg: adding and removing models, and the keys that select one *)

InitReg == Construct

\* the pointers that the client code holds: to the models it has constructed
\* so far, added or not, removed or not
Pointers == 1..(MaxModels + 1)

NextReg ==
    \/ AddModel
    \/ AddModelId
    \/ \E modelId \in 0..(Len(vm) - 1) : RemoveModel(modelId)
    \/ \E vmp \in Pointers : RemoveModelPtr(vmp)
    \/ \E vmp \in Pointers : ValidModel(vmp)
    \/ \E k \in DOMAIN FKeys : Key(FKeys[k], {}, "press")

SpecReg == InitReg /\ [][NextReg]_vars

\* C10: a press of the select key for index k leaves selectedVisualModel
\* unchanged when k >= vm.size(), and sets it to k when k < vm.size().
C10_SelectOnlyExistingIndex ==
    [][\A k \in 0..9 :
          (ev'.kind = "key" /\ ev'.key = FKeys[k + 1] /\ ev'.action = "press") =>
             IF k >= Len(vm)
             THEN selectedVisualModel' = selectedVisualModel
             ELSE selectedVisualModel' = k]_vars

\* whether vm owns the model that vmp points to
Owns(seq, vmp) == \E i \in 1..Len(seq) : seq[i].id = vmp

\* C13: removeVisualModel(i) with i < vm.size() leaves one model fewer: the
\* models formerly before index i are where they were, every model formerly
\* at an index j > i is at j - 1, and the model formerly at i is gone.
C13_RemoveShiftsLaterModels ==
    [][ev'.kind = "remove" =>
          LET i == ev'.x
          IN  /\ Len(vm') = Len(vm) - 1
              /\ \A j \in 0..(Len(vm) - 1) :
                    /\ j < i => vm'[j + 1] = vm[j + 1]
                    /\ j > i => vm'[j] = vm[j + 1]
              /\ ~Owns(vm', vm[i + 1].id)]_vars

\* of three models the one at index 1 has been removed: the size is 2 and
\* the former index-2 model is found at index 1
C13_Witness ==
    /\ ev.kind = "remove"
    /\ ev.x = 1
    /\ nextId = 4
    /\ Len(vm) = 2
    /\ vm[1].id = 1
    /\ FindModel(vm, 3, 0) = 1

\* C14: validVisualModel(p) returns p if vm owns p and nullptr if not (so
\* also for a model added and later removed), and removeVisualModel(p)
\* for a p that vm does not own leaves vm as it is, for a p it owns leaves
\* vm without p.
C14_ValidIffOwned ==
    [][/\ ev'.kind = "valid" =>
             ev'.y = (IF Owns(vm', ev'.x) THEN ev'.x ELSE nullptr)
       /\ (ev'.kind = "removePtr" /\ ~Owns(vm, ev'.x)) => vm' = vm
       /\ (ev'.kind = "removePtr" /\ Owns(vm, ev'.x)) =>
             (~Owns(vm', ev'.x) /\ Len(vm') = Len(vm) - 1)]_vars

\* validVisualModel has returned nullptr for a model that was added and
\* later removed, while vm owns other models
C14_Witness ==
    /\ ev.kind = "valid"
    /\ ev.x < nextId
    /\ ~Owns(vm, ev.x)
    /\ ev.y = nullptr
    /\ vm # <<>>

\* C15: addVisualModelId on n models returns n, leaves the n models where
\* they were and getVisualModel(n) is then the model added; addVisualModel
\* appends likewise and returns a pointer that validVisualModel accepts.
C15_AddAppends ==
    [][/\ ev'.kind = "addId" =>
             /\ ev'.x = Len(vm)
             /\ Len(vm') = Len(vm) + 1
             /\ SubSeq(vm', 1, Len(vm)) = vm
             /\ vm'[ev'.x + 1].id = ev'.y
       /\ ev'.kind = "add" =>
             /\ Len(vm') = Len(vm) + 1
             /\ SubSeq(vm', 1, Len(vm)) = vm
             /\ vm'[Len(vm')].id = ev'.y
             /\ ev'.y # nullptr
             /\ FindModel(vm', ev'.y, 0) < Len(vm')]_vars

\* addVisualModelId has returned 1 on a registry from which a model had
\* been removed before
C15_Witness ==
    /\ ev.kind = "addId"
    /\ ev.x = 1
    /\ Len(vm) = 2
    /\ vm[2].id = 3
    /\ ev.y = 3

----------------------------------------------------------------------------
(* SpecSel: adding and removing models, and the keys that select a model,  *)
(* hide it or change its alpha                                             *)

SelectMods == {{}, {"shift"}}

AlphaKeys == {"left", "right"}

BoundedSel == \A i \in 1..Len(vm) : vm[i].alpha >= 10 - MaxAlphaSteps

InitSel == Construct

NextSel ==
    \/ AddModel
    \/ \E modelId \in 0..(Len(vm) - 1) : RemoveModel(modelId)
    \/ \E k \in DOMAIN FKeys, m \in SelectMods : Key(FKeys[k], m, "press") /\ BoundedSel'
    \/ \E k \in AlphaKeys : Key(k, {"shift"}, "press") /\ BoundedSel'

SpecSel == InitSel /\ [][NextSel]_vars

\* C11: whenever the registry is non-empty, selectedVisualModel is less than
\* vm.size().
C11_SelectedWithinRegistry == vm # <<>> => selectedVisualModel < Len(vm)

\* C12: with an empty registry, a press of Shift+Left, Shift+Right or
\* Shift+F1..F10 accesses no element of vm and leaves vm empty.
C12_EmptyRegistryKeysRejected ==
    [][(vm = <<>> /\ ev'.kind = "key" /\ "shift" \in ev'.mods
            /\ (IsFKey(ev'.key) \/ ev'.key \in AlphaKeys)) =>
          (ub' = ub /\ vm' = <<>>)]_vars

----------------------------------------------------------------------------
(* SpecKeys: the keys that change what is drawn, the help key, a key that  *)
(* is not bound, and key releases, on a newly constructed scene            *)

ControlKeys == {"c", "h", "a", "o", "p", "u", "i", "y", "l", "x"}

CylKeys == {"up", "down"}

CylMods == {{"shift"}, {"control"}}

BoundedKeys ==
    /\ Abs(fov - fov_default) <= 2 * MaxFovSteps
    /\ zNear >= 1 /\ zNear <= 2 ^ (2 * MaxZNearHalvings)
    /\ cyl_radius >= 1 /\ cyl_radius <= 2 ^ (2 * MaxCylHalvings)
    /\ cyl_height >= 2 /\ cyl_height <= 2 * 2 ^ (2 * MaxCylHalvings)

InitKeys == Construct

NextKeys ==
    \/ \E k \in ControlKeys : Key(k, {"control"}, "press") /\ BoundedKeys'
    \/ \E k \in CylKeys, m \in CylMods : Key(k, m, "press") /\ BoundedKeys'
    \/ \E k \in ControlKeys : Key(k, {"control"}, "release") /\ BoundedKeys'

SpecKeys == InitKeys /\ [][NextKeys]_vars

\* the state that a render draws from
VisualState ==
    <<showCoordArrows, cameraVars, fov, zNear, ptype, cyl_radius, cyl_height, vm>>

\* C18: key_callback returns true for every key event that changes the
\* visual state, and false for the help key, for releases and for keys
\* that are not bound.
C18_KeyReturnsVisualChange ==
    [][ev'.kind = "key" =>
          /\ VisualState' # VisualState => ret' = TRUE
          /\ (ev'.action = "release" \/ ev'.key \in {"h", "x"}) => ret' = FALSE]_vars

----------------------------------------------------------------------------
(* SpecQuit: the requests to quit, by key and by the close button of the   *)
(* window, with and without a quit callback set by the client code         *)

QuitKeys == {"q", "l", "c"}

QuitMods == {{}, {"control"}}

QuitActions == {"press", "release"}

BoundedQuit == quit_calls <= MaxQuits

InitQuit == Construct

NextQuit ==
    \/ \E k \in QuitKeys, m \in QuitMods, a \in QuitActions : Key(k, m, a) /\ BoundedQuit'
    \/ WindowClose /\ BoundedQuit'
    \/ \E prevent \in BOOLEAN, callback \in BOOLEAN : SetQuitOptions(prevent, callback)

SpecQuit == InitQuit /\ [][NextQuit]_vars

\* whether the event e is a request to quit, with the close button set up
\* as prevent says
QuitRequest(e, prevent) ==
    \/ CtrlPress(e, "q")
    \/ e.kind = "close" /\ ~prevent

\* C19: each quit request (a Ctrl-q press, or a window-close notification
\* while preventWindowCloseWithButton is false) sets readyToFinish and calls
\* external_quit_callback once if one is set and not at all if none is; a
\* window-close notification while preventWindowCloseWithButton is true
\* sets no flag and calls nothing.
C19_QuitSignalsOnce ==
    [][/\ QuitRequest(ev', preventWindowCloseWithButton) =>
             /\ readyToFinish' = TRUE
             /\ quit_calls' = quit_calls + (IF external_quit_callback THEN 1 ELSE 0)
       /\ (ev'.kind = "close" /\ preventWindowCloseWithButton) =>
             /\ readyToFinish' = readyToFinish
             /\ quit_calls' = quit_calls]_vars

\* a second quit request, by the close button, has called the callback a
\* second time
C19_Witness ==
    /\ ev.kind = "close"
    /\ ~preventWindowCloseWithButton
    /\ external_quit_callback
    /\ readyToFinish
    /\ quit_calls = 2

----------------------------------------------------------------------------
(* SpecCtx: the operations that set the GL context: initialisation, adding *)
(* labels and saving an image, by call and by key                          *)

\* the snapshot files: none, one with every field, one whose second field is
\* not a number, and one with scenerotn_x only
Snapshots ==
    { NoFile,
      <<Num(1), Num(2), Num(-40), Num(0), Num(1), Num(0), Num(0)>>,
      <<Num(1), NotNum, Num(-40), Num(0), Num(1), Num(0), Num(0)>>,
      <<Absent, Absent, Absent, Absent, Num(1), Absent, Absent>> }

LabelTexts == {"a", "b"}

Overloads == {1, 2}

BoundedCtx == Len(texts) <= MaxLabels

InitCtx == Construct

NextCtx ==
    \/ \E file \in Snapshots : InitGl(file)
    \/ \E t \in LabelTexts, c \in BOOLEAN, o \in Overloads : AddLabel(t, c, o) /\ BoundedCtx'
    \/ SaveImage
    \/ Key("s", {"control"}, "press")

SpecCtx == InitCtx /\ [][NextCtx]_vars

\* C20: each operation that sets the GL context on entry (saveImage,
\* addLabel, init_gl) has released it when it exits, also when it exits
\* with an error.
C20_ContextReleasedAtExit ==
    ev.kind \in {"saveImage", "addLabel", "init_gl"} => ~context

\* C21: addLabel, in either overload, called while the text shader program
\* is 0 throws to the caller and adds nothing: texts has the same length
\* and the same contents as before the call.
C21_AddLabelWithoutShaderAddsNothing ==
    [][(ev'.kind = "addLabel" /\ tprog = 0) =>
          /\ thrown'
          /\ Len(texts') = ev'.y
          /\ texts' = texts]_vars

\* the second overload has thrown, before init_gl has loaded the text
\* shader program, and texts is as it was
C21_Witness ==
    /\ ev.kind = "addLabel"
    /\ ev.x = 2
    /\ tprog = 0
    /\ thrown
    /\ Len(texts) = ev.y

----------------------------------------------------------------------------
(* SpecSnap: the snapshot file, written by Ctrl-z and read by init_gl and  *)
(* by the constructor of a new scene, with the setters of the camera       *)

\* translations the client code sets: one of seven significant digits
SceneTranslations == {<<10, -5, -30>>, <<1234567, 0, zDefault>>}

\* rotations the client code sets: unit quaternions
SceneRotations == {<<0, 0, 0, 1>>}

TurnAxes == {<<1, 0, 0>>}

InitSnap == Construct

NextSnap ==
    \/ \E file \in Snapshots \cup {Visual_json} : InitGl(file)
    \/ NewScene(window_w_default, window_h_default, Visual_json)
    \/ \E t \in SceneTranslations : SetSceneTrans(t)
    \/ \E q \in SceneRotations : SetSceneRotation(q)
    \/ \E a \in TurnAxes : RotateScene(a, 1)
    \/ Key("z", {"control"}, "press")

SpecSnap == InitSnap /\ [][NextSnap]_vars

\* whether the load of the snapshot file fails: there is no file, it is not
\* JSON, or a field of it is not a number
LoadFails(file) == file = NoFile \/ FieldsRead(file) < Len(file)

\* the seven components that the snapshot file holds
Components == scenetrans \o rotation

\* C22: if the load of the snapshot file fails for any cause (no file,
\* malformed JSON, a field of the wrong type at any position), init_gl
\* completes without throwing and scenetrans, scenetrans_default and rotation
\* keep the values they had; a field that a well-formed file does not have
\* leaves its component unchanged.
C22_FailedLoadKeepsCamera ==
    [][ev'.kind = "init_gl" =>
          /\ ~thrown'
          /\ LoadFails(Visual_json') =>
                 UNCHANGED <<scenetrans, scenetrans_default, rotation>>
          /\ ~LoadFails(Visual_json') =>
                 \A i \in DOMAIN Visual_json' :
                     Visual_json'[i].kind = "absent" => Components'[i] = Components[i]]_vars

\* C23: a snapshot saved by Ctrl-z and loaded by the initialisation of a
\* new scene gives that scene the scenetrans and the rotation held when the
\* snapshot was saved; the file has every field that the reader reads; and
\* Ctrl-z changes no camera state.
C23_SnapshotRoundTrip ==
    [][/\ CtrlPress(ev', "z") => UNCHANGED <<cameraVars, defaultVars>>
       /\ (CtrlPress(ev', "z") /\ Visual_json' # Visual_json) =>
              \A i \in DOMAIN FieldNames : Visual_json'[i].kind = "num"
       /\ (CtrlPress(ev, "z") /\ Visual_json = WriteSnapshot /\ ev'.kind = "new") =>
              /\ scenetrans' = scenetrans
              /\ rotation' = rotation]_vars

\* C29: rotation is a unit quaternion in every reachable state: after
\* construction, a snapshot load, setSceneRotation and rotate_scene.
C29_RotationIsUnit ==
    rotation[1] * rotation[1] + rotation[2] * rotation[2]
        + rotation[3] * rotation[3] + rotation[4] * rotation[4] = 1

----------------------------------------------------------------------------
(* SpecTurn: rotate gestures in a window of the default width and of half  *)
(* of it, where the same cursor movement turns the scene twice as far      *)

WindowWidths == {window_w_default, window_w_default \div 2}

TurnActions == {"press", "release"}

TurnMods == {{}, {"control"}}

InitTurn == Construct

NextTurn ==
    \/ \E a \in TurnActions, m \in TurnMods : MouseButton("left", a, m)
    \/ \E p \in CursorPositions : CursorMove(p)
    \/ \E w \in WindowWidths : WindowSize(w, window_h_default)

SpecTurn == InitTurn /\ [][NextTurn]_vars

\* the quaternion -q, which stands for the same rotation as q
Negated(q) == <<-q[1], -q[2], -q[3], -q[4]>>

\* whether the step is a cursor move of a rotate gesture that totals 360
\* degrees
FullTurn == ev'.kind = "cursor" /\ rotateMode /\ RotAmount(cursorpos') = 360

\* C30: a rotate gesture whose movement totals 360 degrees returns rotation
\* to savedRotation, component by component.
C30_FullTurnRestoresRotation ==
    [][FullTurn => rotation' = savedRotation]_vars

\* C30, amended: a rotate gesture whose movement totals 360 degrees takes
\* rotation to the negation of savedRotation, component by component, which
\* is the same orientation: its rotation matrix is that of savedRotation.
C30_FullTurnNegatesRotation ==
    [][FullTurn =>
          /\ rotation' = Negated(savedRotation)
          /\ RotationMatrix(rotation') = RotationMatrix(savedRotation)]_vars

\* a gesture that began with the scene turned has gone a full turn
C30_Witness ==
    /\ ev.kind = "cursor"
    /\ rotateMode
    /\ RotAmount(cursorpos) = 360
    /\ savedRotation # QuatIdentity
    /\ rotation = Negated(savedRotation)

----------------------------------------------------------------------------
(* SpecGltf: savegltf, by call and by Ctrl-m, of scenes to which models    *)
(* are added and from which they are removed                               *)

InitGltf == Construct

NextGltf ==
    \/ AddModel
    \/ \E i \in 0..(Len(vm) - 1) : RemoveModel(i)
    \/ \E opened \in BOOLEAN : SaveGltf(opened)
    \/ Key("m", {"control"}, "press")

SpecGltf == InitGltf /\ [][NextGltf]_vars

Punctuation == {"{", "}", "[", "]", ",", ":"}

\* the index after the JSON value that starts at doc[i], after the members
\* of an object, with its closing brace, that start there, and after the
\* elements of an array, with its closing bracket; 0 if there is none
RECURSIVE EndOfValue(_, _), EndOfMembers(_, _), EndOfElements(_, _)
EndOfValue(doc, i) ==
    IF i > Len(doc)
    THEN 0
    ELSE IF doc[i] = "{"
         THEN IF i < Len(doc) /\ doc[i + 1] = "}"
              THEN i + 2
              ELSE EndOfMembers(doc, i + 1)
         ELSE IF doc[i] = "["
              THEN IF i < Len(doc) /\ doc[i + 1] = "]"
                   THEN i + 2
                   ELSE EndOfElements(doc, i + 1)
              ELSE IF doc[i] \in Punctuation THEN 0 ELSE i + 1

EndOfMembers(doc, i) ==
    IF i + 1 > Len(doc) \/ doc[i] \in Punctuation \/ doc[i + 1] # ":"
    THEN 0
    ELSE LET j == EndOfValue(doc, i + 2)
         IN  IF j = 0 \/ j > Len(doc)
             THEN 0
             ELSE IF doc[j] = ","
                  THEN EndOfMembers(doc, j + 1)
                  ELSE IF doc[j] = "}" THEN j + 1 ELSE 0

EndOfElements(doc, i) ==
    LET j == EndOfValue(doc, i)
    IN  IF j = 0 \/ j > Len(doc)
        THEN 0
        ELSE IF doc[j] = ","
             THEN EndOfElements(doc, j + 1)
             ELSE IF doc[j] = "]" THEN j + 1 ELSE 0

\* the document is one JSON value
WellFormed(doc) == EndOfValue(doc, 1) = Len(doc) + 1

\* the places of the document where a member named name begins
MembersNamed(doc, name) ==
    {i \in 1..(Len(doc) - 2) : doc[i] = name /\ doc[i + 1] = ":"}

\* the document has members named name, and each is an empty array
EmptyArrays(doc, name) ==
    /\ MembersNamed(doc, name) # {}
    /\ \A i \in MembersNamed(doc, name) :
           i + 3 <= Len(doc) /\ doc[i + 2] = "[" /\ doc[i + 3] = "]"

\* C28: savegltf of a scene with no models writes a document in which the
\* node list of the scene and the arrays nodes, meshes, buffers,
\* bufferViews and accessors are empty, and which is well formed (no
\* separator dangles), with its materials and asset members.
C28_EmptySceneGltfWellFormed ==
    (ev.kind = "savegltf" /\ ev.x = 1 /\ vm = <<>>) =>
        /\ WellFormed(scene_gltf)
        /\ \A name \in {"nodes", "meshes", "buffers", "bufferViews", "accessors"} :
               EmptyArrays(scene_gltf, name)
        /\ Cardinality(MembersNamed(scene_gltf, "nodes")) = 2
        /\ MembersNamed(scene_gltf, "materials") # {}
        /\ MembersNamed(scene_gltf, "asset") # {}

\* a scene whose models have all been removed has been saved
C28_Witness ==
    /\ ev.kind = "savegltf"
    /\ ev.x = 1
    /\ vm = <<>>
    /\ nextId > 1
    /\ Len(scene_gltf) > 0

----------------------------------------------------------------------------
(* SpecRender: frames of a scene that init has set up from a snapshot      *)
(* file, to which models are added, whose models are marked                *)
(* two-dimensional, and whose projection is switched                       *)

InitRender == Construct

NextRender ==
    \/ tprog = 0 /\ InitGl(<<Num(1), Num(2), Num(-40), Num(0), Num(1), Num(0), Num(0)>>)
    \/ tprog # 0 /\ Render
    \/ AddModel
    \/ \E i \in 0..(Len(vm) - 1) : ~vm[i + 1].twodimensional /\ SetTwoDimensional(i)
    \/ Key("y", {"control"}, "press")

SpecRender == InitRender /\ [][NextRender]_vars

\* the places of frame f where a step op is
StepsOf(f, op) == {i \in 1..Len(f) : f[i].op = op}

\* the ids of the steps op of frame f, in order
RECURSIVE IdsOf(_, _, _)
IdsOf(f, op, i) ==
    IF i > Len(f)
    THEN <<>>
    ELSE (IF f[i].op = op THEN <<f[i].id>> ELSE <<>>) \o IdsOf(f, op, i + 1)

\* the scene matrix of model j of vm
SceneMatrixOf(j) ==
    IF vm[j].twodimensional
    THEN TranslationMatrix(scenetrans)
    ELSE IF ptype = "cylindrical"
         THEN RotationMatrix(rotation)
         ELSE MatMul(TranslationMatrix(scenetrans), RotationMatrix(rotation))

\* C24: in the frame of a render the models are rendered once each, in the
\* order of vm, and the step before the render of a model gives that model
\* its scene matrix: the translation by scenetrans alone if it is
\* two-dimensional, else the translation composed with the rotation, or
\* the rotation alone in the cylindrical projection.
C24_ModelsRenderedInOrder ==
    ev.kind = "render" =>
        /\ IdsOf(frame, "render", 1) = [j \in 1..Len(vm) |-> vm[j].id]
        /\ \A i \in StepsOf(frame, "render") :
               /\ i > 1
               /\ frame[i - 1].op = "setSceneMatrix"
               /\ frame[i - 1].id = frame[i].id
               /\ \A j \in 1..Len(vm) :
                      vm[j].id = frame[i].id => frame[i - 1].m = SceneMatrixOf(j)

\* a frame of the cylindrical projection with a two-dimensional model
\* between two others, of a scene that is translated and rotated
C24_Witness ==
    /\ ev.kind = "render"
    /\ ptype = "cylindrical"
    /\ Len(vm) = 3
    /\ ~vm[1].twodimensional
    /\ vm[2].twodimensional
    /\ ~vm[3].twodimensional
    /\ Cardinality({SceneMatrixOf(1), SceneMatrixOf(2),
                     MatMul(TranslationMatrix(scenetrans), RotationMatrix(rotation))}) = 3
    /\ Len(IdsOf(frame, "render", 1)) = 3

----------------------------------------------------------------------------
(* SpecFrame: frames of a scene that init has set up, to which models and  *)
(* labels are added, and whose projection, coordinate arrows and title     *)
(* are switched                                                            *)

InitFrame == Construct

NextFrame ==
    \/ tprog = 0 /\ InitGl(NoFile)
    \/ tprog # 0 /\ Render
    \/ AddModel
    \/ Len(texts) < MaxLabels /\ AddLabel("a", FALSE, 1)
    \/ \E k \in {"c", "y"} : Key(k, {"control"}, "press")
    \/ \E show \in BOOLEAN : SetShowTitle(show)

SpecFrame == InitFrame /\ [][NextFrame]_vars

\* the part of render that step i of frame f belongs to: 1 the selection
\* of the program, 2 the viewport and the projection, 3 the clear with the
\* uniforms that follow it, 4 the coordinate arrows, 5 the models, 6 the
\* title, 7 the labels, 8 swapBuffers
Part(f, i) ==
    LET op == f[i].op
    IN  IF op \in {"DeleteProgram", "LoadShaders"} THEN 1
        ELSE IF op = "UseProgram"
             THEN IF \E j \in StepsOf(f, "Clear") : j < i THEN 3 ELSE 2
        ELSE IF op \in {"Viewport", "setOrthographic", "setPerspective",
                        "Uniform4fv cyl_cam_pos", "Uniform1f cyl_radius",
                        "Uniform1f cyl_height"} THEN 2
        ELSE IF op \in {"Clear", "ClearBufferfv", "Uniform lighting",
                        "UniformMatrix4fv p_matrix"} THEN 3
        ELSE IF op \in {"positionCoordArrows", "coordArrows->render"} THEN 4
        ELSE IF op \in {"setSceneMatrix", "render"} THEN 5
        ELSE IF op = "textModel->render" THEN 6
        ELSE IF op = "texts->render" THEN 7
        ELSE IF op = "swapBuffers" THEN 8
        ELSE 0

\* C25: the frame of a render goes through its parts in order: selection
\* of the program, viewport and projection, clear, coordinate arrows (if
\* and only if they are shown and the projection is not cylindrical), all
\* the models of vm, the title (if and only if showTitle), the labels in
\* the order of texts, swapBuffers; swapBuffers is there once, as the last
\* step, and nothing is drawn before the clear.
C25_FrameInOrder ==
    ev.kind = "render" =>
        /\ \A i \in 1..Len(frame) : Part(frame, i) # 0
        /\ \A i \in 1..(Len(frame) - 1) : Part(frame, i) <= Part(frame, i + 1)
        /\ \A part \in {2, 3, 8} : \E i \in 1..Len(frame) : Part(frame, i) = part
        /\ StepsOf(frame, "swapBuffers") = {Len(frame)}
        /\ Cardinality(StepsOf(frame, "Clear")) = 1
        /\ \A i \in 1..Len(frame) :
               Part(frame, i) \in 4..7 => \E j \in StepsOf(frame, "Clear") : j < i
        /\ Cardinality(StepsOf(frame, "coordArrows->render")) =
               IF showCoordArrows /\ ptype # "cylindrical" THEN 1 ELSE 0
        /\ IdsOf(frame, "render", 1) = [j \in 1..Len(vm) |-> vm[j].id]
        /\ Cardinality(StepsOf(frame, "textModel->render")) = IF showTitle THEN 1 ELSE 0
        /\ IdsOf(frame, "texts->render", 1) = [j \in 1..Len(texts) |-> j]

\* a frame with every part: the program is loaded again, and the arrows,
\* two models, the title and two labels are drawn
C25_Witness ==
    /\ ev.kind = "render"
    /\ {Part(frame, i) : i \in 1..Len(frame)} = 1..8
    /\ Len(vm) >= 2
    /\ Len(texts) >= 2
    /\ showTitle
    /\ showCoordArrows

\* the perspective_type of the render that made frame f, read from its
\* projection steps
PtypeOf(f) ==
    IF StepsOf(f, "setOrthographic") # {}
    THEN "orthographic"
    ELSE IF StepsOf(f, "setPerspective") # {} THEN "perspective" ELSE "cylindrical"

\* C26: a render leaves active_gprog at the shader type of ptype
\* (projection2d for perspective and orthographic, cylindrical for
\* cylindrical). It loads the graphics program exactly when active_gprog
\* was not that type, and deletes a program only then: not when the
\* render before it had the same ptype, nor when that one had the other of
\* perspective and orthographic. The program that there was is deleted in
\* the step before the load.
C26_ReloadOnlyOnTypeChange ==
    [][ev'.kind = "render" =>
          /\ active_gprog' =
                 IF ptype' = "cylindrical" THEN "cylindrical" ELSE "projection2d"
          /\ active_gprog' = active_gprog <=> StepsOf(frame', "LoadShaders") = {}
          /\ StepsOf(frame', "LoadShaders") = {} => StepsOf(frame', "DeleteProgram") = {}
          /\ Cardinality(StepsOf(frame', "LoadShaders")) <= 1
          /\ \A i \in StepsOf(frame', "LoadShaders") :
                 /\ frame'[i].id = gprog'
                 /\ gprog # 0 =>
                        /\ i > 1
                        /\ frame'[i - 1] = Step("DeleteProgram", gprog, <<>>)
                        /\ StepsOf(frame', "DeleteProgram") = {i - 1}
          /\ (ev.kind = "render" /\ PtypeOf(frame) = ptype') =>
                 StepsOf(frame', "LoadShaders") = {}
          /\ (frame # <<>> /\ {PtypeOf(frame), ptype'} = {"orthographic", "perspective"}) =>
                 StepsOf(frame', "LoadShaders") = {}
      ]_vars

\* the program of the cylindrical projection has been loaded, and a later
\* render has deleted it and loaded the other program again
C26_Witness ==
    /\ ev.kind = "render"
    /\ active_gprog = "projection2d"
    /\ StepsOf(frame, "DeleteProgram") # {}
    /\ StepsOf(frame, "LoadShaders") # {}

----------------------------------------------------------------------------
(* SpecProj: frames of a scene between whose renders keys change the       *)
(* field of view, the near plane and the projection type, the wheel is     *)
(* scrolled and the window is resized                                      *)

ProjKeys == {"p", "u", "y"}

\* a narrower window, and a window of no height
WindowSizes == {<<window_w_default \div 2, window_h_default>>, <<window_w_default, 0>>}

InitProj == Construct

NextProj ==
    \/ tprog = 0 /\ InitGl(NoFile)
    \/ tprog # 0 /\ Render
    \/ \E k \in ProjKeys : Key(k, {"control"}, "press") /\ BoundedKeys'
    \/ Scroll(0, MaxScroll) /\ Bounded'
    \/ \E size \in WindowSizes : WindowSize(size[1], size[2])

SpecProj == InitProj /\ [][NextProj]_vars

\* the matrices that the members give for a perspective_type
DerivedProjection(p) ==
    IF p = "orthographic"
    THEN Orthographic(ortho_lb, ortho_rt, zNear, zFar)
    ELSE Perspective(fov, window_w, IF window_h # 0 THEN window_h ELSE 1, zNear, zFar)

\* C27: after a render, projection is the matrix that ptype, fov, zNear,
\* zFar, the window size and the orthographic bounds give, and invproj is
\* the inverse of projection; for the cylindrical projection the
\* perspective matrix or the orthographic matrix of the members is taken
\* as derived.
C27_ProjectionIsDerived ==
    ev.kind = "render" =>
        /\ \E p \in IF ptype = "cylindrical" THEN {"perspective", "orthographic"} ELSE {ptype} :
               SameMatrix(projection, DerivedProjection(p))
        /\ SameMatrix(invproj, Invert(projection))

----------------------------------------------------------------------------
(* Gestures, under Spec: the press position, the saved rotation and the    *)
(* camera during rotate and translate gestures                             *)

\* C31: a cursor move in rotate mode leaves mousePressPosition as it is;
\* a cursor move in translate mode sets it to the new cursor position, and
\* the movement of the scene is measured from the old one.
C31_PressPositionMovesOnlyInTranslate ==
    [][ev'.kind = "cursor" =>
          /\ rotateMode => mousePressPosition' = mousePressPosition
          /\ (~rotateMode /\ translateMode) =>
                 /\ mousePressPosition' = cursorpos'
                 /\ scenetrans'[1] - scenetrans[1] =
                        Unproject(ToCoord(cursorpos'))[1]
                            - Unproject(ToCoord(mousePressPosition))[1]
      ]_vars

\* the cursor has moved away from the press position in a rotate gesture
C31_Witness ==
    /\ ev.kind = "cursor"
    /\ rotateMode
    /\ cursorpos # mousePressPosition
    /\ rotation # savedRotation

\* the conjugate of a quaternion: the opposite rotation
Conjugate(q) == <<q[1], -q[2], -q[3], -q[4]>>

\* C32: a press of any mouse button on an unlocked scene sets
\* mousePressPosition to cursorpos and savedRotation to rotation, sets
\* invscene to the inverse of the rotation matrix of savedRotation, and
\* leaves rotation and scenetrans unchanged; a primary press turns rotate
\* mode on, with rotateModMode if and only if control is held, a secondary
\* press turns translate mode on, and another button changes no mode.
C32_PressSavesGestureStart ==
    [][(ev'.kind = "button" /\ ev'.action = "press" /\ ~sceneLocked) =>
          /\ mousePressPosition' = cursorpos
          /\ savedRotation' = rotation
          /\ invscene' = RotationMatrix(Conjugate(savedRotation'))
          /\ rotation' = rotation
          /\ scenetrans' = scenetrans
          /\ ev'.key = "left" =>
                 rotateMode' /\ (rotateModMode' <=> "control" \in ev'.mods)
          /\ ev'.key = "right" => translateMode'
          /\ ev'.key \notin {"left", "right"} =>
                 /\ rotateMode' = rotateMode
                 /\ rotateModMode' = rotateModMode
                 /\ translateMode' = translateMode
      ]_vars

\* a press of the middle button during a rotate gesture that had turned
\* the scene: the gesture goes on, from the new press position
C32_Witness ==
    /\ ButtonEvent(ev, "middle", "press")
    /\ ~sceneLocked
    /\ rotateMode
    /\ mousePressPosition = cursorpos
    /\ mousePressPosition # <<0, 0>>
    /\ savedRotation = rotation
    /\ rotation # QuatIdentity
    /\ invscene # MatIdentity

----------------------------------------------------------------------------
(* SpecPan: gestures whose beginning is observed, with the cursor moving   *)
(* in both directions, and resizes that disturb them                       *)

PanPositions == {<<0, 0>>, <<window_w_default, 0>>, <<window_w_default, window_w_default>>}

\* the secondary button, and a button that begins no gesture
PanButtons == {"right", "middle"}

BoundedPan ==
    \A i \in 1..2 : Abs(scenetrans[i] - scenetrans_default[i]) <= MaxPan

InitPan == Construct

NextPan ==
    \/ \E b \in PanButtons, a \in ButtonActions : ObservedButton(b, a, {})
    \/ \E p \in PanPositions : CursorMove(p) /\ BoundedPan'
    \/ \E w \in WindowWidths : ObservedWindowSize(w, window_h_default)

SpecPan == InitPan /\ [][NextPan]_vars

\* the world-frame movement of one cursor move from the place of the press
\* to the place where the cursor is
SingleMove ==
    <<Unproject(ToCoord(cursorpos))[1] - Unproject(ToCoord(gesture.at))[1],
      Unproject(ToCoord(cursorpos))[2] - Unproject(ToCoord(gesture.at))[2]>>

\* C34: after the cursor moves of a translate gesture during which the
\* projection, the window width and scenetrans.z have not changed,
\* scenetrans.xy is what one move from the press position to the cursor
\* position gives, scenetrans.z and rotation are as at the press, and
\* cyl_cam_pos.x and cyl_cam_pos.z have changed by the negatives of the
\* changes of scenetrans.x and scenetrans.y.
C34_TranslateMovesTelescope ==
    (ev.kind = "cursor" /\ translateMode /\ gesture.steady) =>
        /\ scenetrans[1] = gesture.scenetrans[1] + SingleMove[1]
        /\ scenetrans[2] = gesture.scenetrans[2] - SingleMove[2]
        /\ scenetrans[3] = gesture.scenetrans[3]
        /\ rotation = gesture.rotation
        /\ cyl_cam_pos[1] - gesture.cyl_cam_pos[1] =
               -(scenetrans[1] - gesture.scenetrans[1])
        /\ cyl_cam_pos[3] - gesture.cyl_cam_pos[3] =
               -(scenetrans[2] - gesture.scenetrans[2])

\* a translate gesture has moved the scene in both directions, and the
\* cursor is now where neither coordinate is as at the press
C34_Witness ==
    /\ ev.kind = "cursor"
    /\ translateMode
    /\ gesture.steady
    /\ cursorpos[1] # gesture.at[1]
    /\ cursorpos[2] # gesture.at[2]
    /\ scenetrans[1] # gesture.scenetrans[1]
    /\ scenetrans[2] # gesture.scenetrans[2]
    /\ gesture.scenetrans # scenetrans_default

----------------------------------------------------------------------------
(* SpecScroll: scrolls of both wheels, in the three projections, of a      *)
(* scene that the client code has turned                                   *)

\* a half turn about z, and a quaternion that is not a unit, which
\* setSceneRotation takes as it is
ScrollRotations == {<<0, 0, 0, 1>>, <<1, 0, 0, 1>>}

ScrollKeys == {"y", "l"}

\* offset pairs <<xoffset, yoffset>> of a mouse with two wheels
WheelOffsets == {<<1, 1>>, <<-1, 1>>, <<0, -1>>, <<1, 0>>}

BoundedScroll ==
    /\ \A i \in 1..3 : Abs(scenetrans[i] - scenetrans_default[i]) <= MaxScroll
    /\ cyl_cam_pos[4] <= MaxCylW + 1
    /\ \A i \in 1..2 : Abs(ortho_lb[i]) <= MaxOrtho /\ Abs(ortho_rt[i]) <= MaxOrtho

InitScroll == Construct

NextScroll ==
    \/ \E r \in ScrollRotations : SetSceneRotation(r)
    \/ \E k \in ScrollKeys : Key(k, {"control"}, "press")
    \/ \E s \in WheelOffsets : Scroll(s[1], s[2]) /\ BoundedScroll'

SpecScroll == InitScroll /\ [][NextScroll]_vars

\* the y scroll as a movement in the frame of the turned scene
RotatedScroll(yoffset) ==
    MatVec(RotationMatrix(rotation), <<0, yoffset * scenetrans_stepsize, 0, 1>>)

\* C35: a scroll of an unlocked scene in the perspective or cylindrical
\* projection changes scenetrans.x by -xoffset * scenetrans_stepsize,
\* cyl_cam_pos.x by +xoffset * scenetrans_stepsize plus the x of the
\* rotated y scroll, and scenetrans.z by +yoffset * scenetrans_stepsize,
\* and leaves scenetrans.y, rotation, ortho_lb and ortho_rt unchanged; in
\* the orthographic projection it leaves scenetrans, rotation and
\* cyl_cam_pos unchanged.
C35_ScrollMovesCamera ==
    [][(ev'.kind = "scroll" /\ ~sceneLocked) =>
          IF ptype = "orthographic"
          THEN /\ scenetrans' = scenetrans
               /\ rotation' = rotation
               /\ cyl_cam_pos' = cyl_cam_pos
          ELSE /\ scenetrans'[1] = scenetrans[1] - ev'.x * scenetrans_stepsize
               /\ cyl_cam_pos'[1] = cyl_cam_pos[1] + ev'.x * scenetrans_stepsize
                                        + RotatedScroll(ev'.y)[1]
               /\ scenetrans'[3] = scenetrans[3] + ev'.y * scenetrans_stepsize
               /\ scenetrans'[2] = scenetrans[2]
               /\ rotation' = rotation
               /\ ortho_lb' = ortho_lb
               /\ ortho_rt' = ortho_rt
      ]_vars

\* a scroll of both wheels in the cylindrical projection, of a scene whose
\* rotation gives the y scroll an x part
C35_Witness ==
    /\ ev.kind = "scroll"
    /\ ev.x # 0
    /\ ev.y # 0
    /\ ~sceneLocked
    /\ ptype = "cylindrical"
    /\ RotatedScroll(ev.y)[1] # 0
    /\ scenetrans[1] # scenetrans_default[1]
    /\ scenetrans[3] # scenetrans_default[3]

\* C38: the homogeneous component of cyl_cam_pos is 1 in every state.
C38_CylCamPosWIsOne == cyl_cam_pos[4] = 1

----------------------------------------------------------------------------
(* SpecNear: the keys that change fov and zNear, from the defaults, as     *)
(* far as zNear goes beyond zFar                                           *)

NearKeys == {"o", "p", "u", "i"}

\* a length in world units, in the unit of zNear: the default zNear, 0.001,
\* is 2 ^ MaxZNearHalvings
InZNearUnits(length) == length * 1000 * 2 ^ MaxZNearHalvings

BoundedNear ==
    /\ zNear >= 1
    /\ zNear <= 2 * InZNearUnits(zFar)

InitNear == Construct

NextNear == \E k \in NearKeys : Key(k, {"control"}, "press") /\ BoundedNear'

SpecNear == InitNear /\ [][NextNear]_vars

\* C36: from the defaults, after any key events, 0 < fov < 180, zNear > 0
\* and zFar > zNear.
C36_ProjectionParametersNonDegenerate ==
    /\ 0 < fov /\ fov < 180
    /\ zNear > 0
    /\ InZNearUnits(zFar) > zNear

----------------------------------------------------------------------------
(* Selection, under SpecSel: select keys for models that are not there     *)

\* C37: a press of the select key for an index k >= vm.size(), with or
\* without shift, changes neither selectedVisualModel nor the hidden flag
\* of a model.
C37_SelectMissingIndexIsNoOp ==
    [][\A k \in 0..9 :
          (ev'.kind = "key" /\ ev'.key = FKeys[k + 1] /\ ev'.action = "press"
              /\ k >= Len(vm)) =>
             /\ selectedVisualModel' = selectedVisualModel
             /\ Len(vm') = Len(vm)
             /\ \A i \in 1..Len(vm) : vm'[i].hidden = vm[i].hidden]_vars

----------------------------------------------------------------------------
(* SpecReset: gestures and resets of a scene that init has set up from a   *)
(* snapshot file with all seven fields                                     *)

LoadedSnapshot == <<Num(1), Num(2), Num(-40), Num(0), Num(1), Num(0), Num(0)>>

GestureButtons == {"left", "right"}

InitReset == Construct

NextReset ==
    \/ tprog = 0 /\ InitGl(LoadedSnapshot)
    \/ tprog # 0 /\ \E b \in GestureButtons, a \in ButtonActions : MouseButton(b, a, {})
    \/ tprog # 0 /\ \E p \in CursorPositions : CursorMove(p) /\ Bounded'
    \/ tprog # 0 /\ \E k \in ViewKeys : Key(k, {"control"}, "press")

SpecReset == InitReset /\ [][NextReset]_vars

\* the translation and the rotation that a snapshot file with all its
\* fields supplies
LoadedTranslation(file) == <<file[1].val, file[2].val, file[3].val>>

LoadedRotation(file) == <<file[4].val, file[5].val, file[6].val, file[7].val>>

\* C39: init_gl with a snapshot file that has the translation and the
\* rotation leaves scenetrans_default and rotation_default at the loaded
\* values, and a Ctrl-a press on the unlocked scene, after any gestures,
\* puts scenetrans and rotation back to the loaded values.
C39_ResetRestoresLoadedView ==
    /\ ev.kind = "init_gl" =>
           /\ scenetrans_default = LoadedTranslation(Visual_json)
           /\ rotation_default = LoadedRotation(Visual_json)
    /\ (CtrlPress(ev, "a") /\ ~sceneLocked) =>
           /\ scenetrans = LoadedTranslation(Visual_json)
           /\ rotation = LoadedRotation(Visual_json)

----------------------------------------------------------------------------
(* SpecLoop: renders between the input events of a scene that init has set *)
(* up: translate gestures and resizes of the window                        *)

InitLoop == Construct

NextLoop ==
    \/ tprog = 0 /\ InitGl(NoFile)
    \/ tprog # 0 /\ Render
    \/ tprog # 0 /\ \E b \in PanButtons, a \in ButtonActions : MouseButton(b, a, {})
    \/ tprog # 0 /\ \E p \in PanPositions : CursorMove(p) /\ BoundedPan'
    \/ tprog # 0 /\ \E w \in WindowWidths : WindowSize(w, window_h_default)

SpecLoop == InitLoop /\ [][NextLoop]_vars

\* the world-frame movement <<x, y>> of a cursor move to p in translate
\* mode, had a render come just before the move
TranslateByAfterRender(p) ==
    LET v0 == UnprojectThrough(SetProjection[1], SetProjection[2],
                               ToCoord(mousePressPosition), scenetrans[3])
        v1 == UnprojectThrough(SetProjection[1], SetProjection[2],
                               ToCoord(p), scenetrans[3])
    IN  <<v1[1] - v0[1], v1[2] - v0[2]>>

\* C40: a render leaves scenetrans, rotation, savedRotation, cyl_cam_pos,
\* fov, zNear, ptype, ortho_lb, ortho_rt, the gesture modes,
\* mousePressPosition, sceneLocked, selectedVisualModel and the registry
\* unchanged, and an input event gives the camera what it would give it had
\* a render come just before the event: a cursor move in translate mode
\* moves scenetrans and cyl_cam_pos as it would after a render.
C40_RenderIsReadOnly ==
    [][/\ ev'.kind = "render" =>
              UNCHANGED <<scenetrans, rotation, savedRotation, cyl_cam_pos, fov, zNear,
                          ptype, ortho_lb, ortho_rt, rotateMode, rotateModMode,
                          translateMode, mousePressPosition, sceneLocked,
                          selectedVisualModel, vm>>
       /\ (ev'.kind = "cursor" /\ translateMode /\ ~rotateMode) =>
              /\ scenetrans' = <<scenetrans[1] + TranslateByAfterRender(cursorpos')[1],
                                 scenetrans[2] - TranslateByAfterRender(cursorpos')[2],
                                 scenetrans[3]>>
              /\ cyl_cam_pos' = <<cyl_cam_pos[1] - TranslateByAfterRender(cursorpos')[1],
                                  cyl_cam_pos[2],
                                  cyl_cam_pos[3] + TranslateByAfterRender(cursorpos')[2],
                                  cyl_cam_pos[4]>>]_vars

====
